---- MODULE Spec2Model ----
(***************************************************************************)
(* Offline-first task synchronisation: the local task store (lib/tasks),   *)
(* the sync engine (lib/sync.ts), the connectivity monitor (lib/network)   *)
(* and the remote task service as seen through the remote client           *)
(* (lib/api.ts).                                                           *)
(*                                                                         *)
(* One action is one run-to-suspension segment of JavaScript: a handler    *)
(* runs from its entry to its first remote call (or its return), and a     *)
(* remote call's answer resumes the sync cycle until its next remote call  *)
(* (or its completion).  Storage calls are synchronous (db.runSync).       *)
(***************************************************************************)
EXTENDS Integers, Sequences, FiniteSets, TLC

\* ------------------------------------------------------------------ bounds
\* Record identifiers are 1..MaxId (generateUUID and the server's ids).
MaxId == 2
\* Wall-clock values (Date.now() and server timestamps) are 1..MaxTime.
MaxTime == 2
\* Sync cycle bodies that can be suspended at the same time.
MaxCycles == 2
\* Handler invocations and environment events of one behaviour (the answers
\* of the remote calls they cause are not counted).
MaxEvents == 4

Ids == 1..MaxId
Times == 1..MaxTime
Cycles == 1..MaxCycles

\* number | null: null is 0, every timestamp is at least 1.
Null == 0
\* string | null for lastError.  A message is one of three strings, by the two
\* things the code asks of one: '' (falsy), a non-empty text that carries
\* 'Unauthorized' ("unauth"), any other non-empty text ("msg").
NullErr == "null"
Titles == {"a", "b"}
NoDesc == "null"
\* The failures a remote call can raise besides not-found and conflict:
\* "auth" is the 401 answer, whose message carries 'Unauthorized'; "token" is
\* the UnauthorizedError apiRequest throws when no token getter is configured
\* or the token is null ('Auth token getter not configured', 'No
\* authentication token available'); "other" has any other non-empty
\* message, "empty" is an Error whose message is ''.
FailKinds == {"auth", "token", "other", "empty"}
\* The failures that are authentication errors (UnauthorizedError).
AuthKinds == {"auth", "token"}

VARIABLES
    store,          \* tasks table: id -> row (the rows present)
    tableExists,    \* the tasks table is provisioned
    server,         \* remote task service: id -> remote task
    clock,          \* Date.now()
    netStatus,      \* currentState.status of the connectivity monitor
    netListeners,   \* listeners the engine registered with addNetworkListener
    syncState,      \* sync.ts syncState
    lastSyncTime,   \* sync.ts lastSyncTime
    lastError,      \* sync.ts lastError
    isSyncInProgress, \* sync.ts isSyncInProgress
    cyc,            \* the suspended sync() bodies
    events,         \* handler invocations and environment events so far
    ev,             \* what the last handler returned, published and called
    hist,           \* history: what has happened to the rows now stored
    retry,          \* the syncWithRetry call in progress
    syncInterval,   \* sync.ts syncInterval: the handle of the periodic timer
    timers,         \* the interval timers the runtime has active
    hook,           \* the state of a mounted useSync hook
    reg,            \* the listener registries and their last passes
    wait            \* the waitForOnline call in progress

vars == <<store, tableExists, server, clock, netStatus, netListeners, syncState,
          lastSyncTime, lastError, isSyncInProgress, cyc, events, ev, hist,
          retry, syncInterval, timers, hook, reg, wait>>

\* ------------------------------------------------------------ local store
Restrict(f, S) == [x \in S |-> f[x]]

\* createTask's INSERT: status 'pending', syncStatus 'pending', created flag.
NewRow(title, description, now) ==
    [title |-> title, description |-> description, status |-> "pending",
     lastUpdatedAt |-> now, serverLastUpdatedAt |-> Null, syncStatus |-> "pending",
     locallyCreated |-> TRUE, locallyModified |-> FALSE, locallyDeleted |-> FALSE]

\* rowToTask: the row with its id.
rowToTask(st, id) ==
    [id |-> id, title |-> st[id].title, description |-> st[id].description,
     status |-> st[id].status, lastUpdatedAt |-> st[id].lastUpdatedAt,
     serverLastUpdatedAt |-> st[id].serverLastUpdatedAt,
     syncStatus |-> st[id].syncStatus, locallyCreated |-> st[id].locallyCreated,
     locallyModified |-> st[id].locallyModified,
     locallyDeleted |-> st[id].locallyDeleted]

getAllTasksIds(st) == {i \in DOMAIN st : ~st[i].locallyDeleted}

\* getTaskById: SELECT * FROM tasks WHERE id = ?, the first row or null;
\* the result is the list of at most one task, <<>> for null.
getTaskById(st, id) == IF id \in DOMAIN st THEN <<rowToTask(st, id)>> ELSE <<>>

getLocallyCreatedIds(st) ==
    {i \in DOMAIN st : st[i].locallyCreated /\ ~st[i].locallyDeleted}

getLocallyModifiedIds(st) ==
    {i \in DOMAIN st : st[i].locallyModified /\ ~st[i].locallyCreated
                        /\ ~st[i].locallyDeleted}

getLocallyDeletedIds(st) == {i \in DOMAIN st : st[i].locallyDeleted}

\* The rows of a query as a list of tasks (rows in ascending id order).
RECURSIVE TaskList(_, _)
TaskList(st, S) ==
    IF S = {} THEN <<>>
    ELSE LET m == CHOOSE i \in S : \A j \in S : i <= j
         IN <<rowToTask(st, m)>> \o TaskList(st, S \ {m})

getLocallyCreatedTasks(st) == TaskList(st, getLocallyCreatedIds(st))
getLocallyModifiedTasks(st) == TaskList(st, getLocallyModifiedIds(st))
getLocallyDeletedTasks(st) == TaskList(st, getLocallyDeletedIds(st))

\* updateTask's UPDATE: the provided fields, lastUpdatedAt, and the modified
\* flag unless the row is still locallyCreated.  input fields: "undef" = absent.
Undef == "undef"
\* A variant that flags every edited row modified: C17 rejects it.
updateTask_FlagsCreatedToo(st, id, input, now) ==
    IF id \notin DOMAIN st THEN st
    ELSE IF input.title = Undef /\ input.description = Undef /\ input.status = Undef
    THEN st
    ELSE [st EXCEPT ![id] =
            [@ EXCEPT !.title = IF input.title = Undef THEN @ ELSE input.title,
                      !.description = IF input.description = Undef THEN @
                                      ELSE input.description,
                      !.status = IF input.status = Undef THEN @ ELSE input.status,
                      !.lastUpdatedAt = now,
                      !.locallyModified = TRUE, !.syncStatus = "pending"]]
updateTask(st, id, input, now) ==
    IF id \notin DOMAIN st THEN st
    ELSE IF input.title = Undef /\ input.description = Undef /\ input.status = Undef
    THEN st
    ELSE LET r == st[id]
             r1 == [r EXCEPT
                     !.title = IF input.title = Undef THEN @ ELSE input.title,
                     !.description = IF input.description = Undef THEN @
                                     ELSE input.description,
                     !.status = IF input.status = Undef THEN @ ELSE input.status,
                     !.lastUpdatedAt = now]
             r2 == IF ~r.locallyCreated
                   THEN [r1 EXCEPT !.locallyModified = TRUE, !.syncStatus = "pending"]
                   ELSE r1
         IN [st EXCEPT ![id] = r2]

\* toggleTaskComplete: updateTask with the other status.
toggleTaskComplete(st, id, now) ==
    IF id \notin DOMAIN st THEN st
    ELSE updateTask(st, id,
            [title |-> Undef, description |-> Undef,
             status |-> IF st[id].status = "completed" THEN "pending"
                        ELSE "completed"], now)

\* A variant that soft-deletes every row: C19 rejects it.
deleteTask_AlwaysSoft(st, id, now) ==
    IF id \notin DOMAIN st THEN st
    ELSE [st EXCEPT ![id] = [@ EXCEPT !.locallyDeleted = TRUE,
                                       !.lastUpdatedAt = now,
                                       !.syncStatus = "pending"]]

\* deleteTask: hard delete of a still-created row, soft delete otherwise.
deleteTask(st, id, now) ==
    IF id \notin DOMAIN st THEN st
    ELSE IF st[id].locallyCreated THEN Restrict(st, DOMAIN st \ {id})
    ELSE [st EXCEPT ![id] = [@ EXCEPT !.locallyDeleted = TRUE,
                                       !.lastUpdatedAt = now,
                                       !.syncStatus = "pending"]]

\* markTaskAsSynced(id, {lastUpdatedAt: ts}): an UPDATE, no row -> no change.
markTaskAsSynced(st, id, ts) ==
    IF id \notin DOMAIN st THEN st
    ELSE [st EXCEPT ![id] = [@ EXCEPT !.syncStatus = "synced",
                                       !.locallyCreated = FALSE,
                                       !.locallyModified = FALSE,
                                       !.lastUpdatedAt = ts,
                                       !.serverLastUpdatedAt = ts]]

removeSyncedDeletedTask(st, id) == Restrict(st, DOMAIN st \ {id})

\* upsertTaskFromServer: INSERT OR REPLACE of a synced row.
upsertTaskFromServer(st, t) ==
    [i \in DOMAIN st \cup {t.id} |->
        IF i = t.id
        THEN [title |-> t.title, description |-> t.description, status |-> t.status,
              lastUpdatedAt |-> t.lastUpdatedAt,
              serverLastUpdatedAt |-> t.lastUpdatedAt, syncStatus |-> "synced",
              locallyCreated |-> FALSE, locallyModified |-> FALSE,
              locallyDeleted |-> FALSE]
        ELSE st[i]]

markTaskAsConflict(st, id) ==
    IF id \notin DOMAIN st THEN st
    ELSE [st EXCEPT ![id] = [@ EXCEPT !.syncStatus = "conflict"]]

\* ---------------------------------------------------------- remote service
\* An ApiTask as the service holds and returns it.
ApiTask(title, description, status, ts) ==
    [title |-> title, description |-> description, status |-> status,
     lastUpdatedAt |-> ts]

\* fetchTasks' answer: the service's tasks with their ids.
RECURSIVE ServerList(_, _)
ServerList(srv, S) ==
    IF S = {} THEN <<>>
    ELSE LET m == CHOOSE i \in S : \A j \in S : i <= j
         IN <<[id |-> m, title |-> srv[m].title, description |-> srv[m].description,
               status |-> srv[m].status, lastUpdatedAt |-> srv[m].lastUpdatedAt]>>
            \o ServerList(srv, S \ {m})

fetchTasks(srv) == ServerList(srv, DOMAIN srv)

\* ------------------------------------------------------------- sync engine
\* A sync() body: pc names the remote call it is suspended on.
\*   todo  the batch being pushed, Head(todo) is the task of the call in flight
\*   errs  pushChanges' errors so far
\*   base  the expected version of a conflict re-push
IdleCycle == [pc |-> "idle", todo |-> <<>>, errs |-> <<>>, base |-> Null]

\* error.message of a failed remote call.
MsgOf(f) == IF f = "auth" THEN "unauth" ELSE IF f = "empty" THEN "" ELSE "msg"

\* `Failed to ... "${title}": ${msg}`: never empty, carries msg.
Wrap(msg) == IF msg = "unauth" THEN "unauth" ELSE "msg"

\* [...].filter(Boolean).join('; ')
JoinMsgs(parts) ==
    IF \E i \in 1..Len(parts) : parts[i] = "unauth" THEN "unauth"
    ELSE IF \E i \in 1..Len(parts) : parts[i] # "" THEN "msg"
    ELSE ""

\* The part of the state a handler of the engine works on, with what the
\* handler has returned (result), published (pub, done) and called (calls).
Engine ==
    [store |-> store, server |-> server, cyc |-> cyc,
     inProgress |-> isSyncInProgress, syncState |-> syncState,
     lastError |-> lastError, lastSyncTime |-> lastSyncTime,
     online |-> netStatus = "online",
     result |-> "none", pub |-> <<>>, done |-> <<>>, calls |-> <<>>]

\* isOnline() of the connectivity monitor.
isOnline == netStatus = "online"

getPendingChangesCount(st) ==
    Cardinality(getLocallyCreatedIds(st)) + Cardinality(getLocallyModifiedIds(st))
    + Cardinality(getLocallyDeletedIds(st))

getSyncStatus(e) ==
    [state |-> e.syncState, lastSyncTime |-> e.lastSyncTime,
     pendingChanges |-> getPendingChangesCount(e.store), error |-> e.lastError,
     isOnline |-> e.online]

notifyStatusListeners(e) == [e EXCEPT !.pub = Append(@, getSyncStatus(e))]

notifySyncComplete(e, success, error) ==
    [e EXCEPT !.done = Append(@, [success |-> success, error |-> error])]

\* setSyncState(state, error): a falsy error ('' or none) is not stored.
setSyncState(e, state, error) ==
    notifyStatusListeners(
        [e EXCEPT !.syncState = state,
                  !.lastError = IF error # "" THEN error
                                ELSE IF state = "idle" THEN NullErr ELSE @])

\* pushChanges from the deleted batch on, then pullChanges' fetchTasks.
AfterDeleted(todo, errs) ==
    IF todo # <<>> THEN [pc |-> "delete", todo |-> todo, errs |-> errs, base |-> Null]
    ELSE [pc |-> "list", todo |-> <<>>, errs |-> errs, base |-> Null]

\* A variant that goes from the modified batch to fetchTasks and skips the
\* deleted batch: C5 rejects it.
AfterModified_SkipsDeleted(todo, st, errs) ==
    IF todo # <<>> THEN [pc |-> "update", todo |-> todo, errs |-> errs, base |-> Null]
    ELSE [pc |-> "list", todo |-> <<>>, errs |-> errs, base |-> Null]

\* pushChanges from the modified batch on.
AfterModified(todo, st, errs) ==
    IF todo # <<>> THEN [pc |-> "update", todo |-> todo, errs |-> errs, base |-> Null]
    ELSE AfterDeleted(getLocallyDeletedTasks(st), errs)

\* pushChanges from the created batch on.
AfterCreated(todo, st, errs) ==
    IF todo # <<>> THEN [pc |-> "create", todo |-> todo, errs |-> errs, base |-> Null]
    ELSE AfterModified(getLocallyModifiedTasks(st), st, errs)

\* A variant that gives up the push phase at the first recorded error: C28
\* rejects it.
NextTask_StopsOnError(k, st, errs) ==
    IF errs # <<>> THEN [pc |-> "list", todo |-> <<>>, errs |-> errs, base |-> Null]
    ELSE IF k.pc = "create" THEN AfterCreated(Tail(k.todo), st, errs)
    ELSE IF k.pc \in {"update", "repush"} THEN AfterModified(Tail(k.todo), st, errs)
    ELSE AfterDeleted(Tail(k.todo), errs)

\* The loop of cycle record k goes on after the task at Head(k.todo).
NextTask(k, st, errs) ==
    IF k.pc = "create" THEN AfterCreated(Tail(k.todo), st, errs)
    ELSE IF k.pc \in {"update", "repush"} THEN AfterModified(Tail(k.todo), st, errs)
    ELSE AfterDeleted(Tail(k.todo), errs)

\* The remote call a cycle record is suspended on.
CallOf(k) ==
    IF k.pc = "list" THEN [kind |-> "list"]
    ELSE IF k.pc = "delete" THEN [kind |-> "delete", id |-> Head(k.todo).id]
    ELSE LET t == Head(k.todo)
         IN [kind |-> IF k.pc = "create" THEN "create" ELSE "update",
             id |-> t.id, title |-> t.title, description |-> t.description,
             status |-> t.status,
             lastUpdatedAt |->
                IF k.pc = "create" THEN t.lastUpdatedAt
                ELSE IF k.pc = "repush" THEN k.base
                ELSE IF t.serverLastUpdatedAt # Null THEN t.serverLastUpdatedAt
                ELSE t.lastUpdatedAt]

FreeCycles(e) == {c \in Cycles : e.cyc[c].pc = "idle"}

\* The cycle record goes to k: the call it is now suspended on is issued.
Suspend(e, c, k) ==
    [e EXCEPT !.cyc = [@ EXCEPT ![c] = k], !.calls = Append(@, CallOf(k))]

\* A variant whose offline branch publishes nothing: C4 rejects it.
SyncEnter_OfflineSilent(e) ==
    IF e.inProgress THEN [e EXCEPT !.result = "false"]
    ELSE IF ~e.online THEN [e EXCEPT !.result = "false"]
    ELSE LET c == CHOOSE x \in FreeCycles(e) : \A y \in FreeCycles(e) : x <= y
             e1 == setSyncState([e EXCEPT !.inProgress = TRUE], "syncing", "")
         IN Suspend(e1, c, AfterCreated(getLocallyCreatedTasks(e1.store), e1.store, <<>>))

\* sync() up to its first remote call.
SyncEnter(e) ==
    IF e.inProgress THEN [e EXCEPT !.result = "false"]
    ELSE IF ~e.online THEN [notifyStatusListeners(e) EXCEPT !.result = "false"]
    ELSE LET c == CHOOSE x \in FreeCycles(e) : \A y \in FreeCycles(e) : x <= y
             e1 == setSyncState([e EXCEPT !.inProgress = TRUE], "syncing", "")
         IN Suspend(e1, c, AfterCreated(getLocallyCreatedTasks(e1.store), e1.store, <<>>))

\* A variant of the finally block that leaves the flag set: C6 rejects it.
SyncFinally_KeepsFlag(e, c) ==
    notifyStatusListeners([e EXCEPT !.cyc = [@ EXCEPT ![c] = IdleCycle]])

\* sync()'s finally block.
SyncFinally(e, c) ==
    notifyStatusListeners([e EXCEPT !.inProgress = FALSE,
                                    !.cyc = [@ EXCEPT ![c] = IdleCycle]])

\* sync() after pullChanges returned: pullErr is pullResult.error, '' when
\* there is none.
SyncFinish(e, c, pushErrs, pullOk, pullErr, now) ==
    IF pushErrs = <<>> /\ pullOk
    THEN SyncFinally(
            [notifySyncComplete(
                setSyncState([e EXCEPT !.lastSyncTime = now], "idle", ""),
                TRUE, "") EXCEPT !.result = "true"], c)
    ELSE LET errorMsg == JoinMsgs(Append(pushErrs,
                                         IF pullErr # "" THEN Wrap(pullErr) ELSE ""))
         IN SyncFinally(
              [notifySyncComplete(setSyncState(e, "error", errorMsg), FALSE, errorMsg)
                EXCEPT !.result = "false"], c)

\* sync()'s catch block: msg is the exception's message.
SyncCatch(e, c, msg) ==
    SyncFinally(
        [notifySyncComplete(setSyncState(e, "error", msg), FALSE, msg)
          EXCEPT !.result = "false"], c)

\* The store statement of a push step ran (rows st) or threw 'no such table'
\* inside the loop's try block: the loop goes on.
PushStep(e, c, st, errs) ==
    Suspend([e EXCEPT !.store = st], c, NextTask(e.cyc[c], st, errs))

\* pullChanges' upsert loop over the fetched tasks.
RECURSIVE UpsertLoop(_, _, _)
UpsertLoop(st, serverTasks, localPendingIds) ==
    IF serverTasks = <<>> THEN st
    ELSE LET t == Head(serverTasks)
         IN UpsertLoop(IF t.id \in localPendingIds THEN st
                       ELSE upsertTaskFromServer(st, t),
                       Tail(serverTasks), localPendingIds)

\* A variant that protects no pending id: C9 rejects it.
Reconcile_Unprotected(st, serverTasks) ==
    LET localTasks == getAllTasksIds(st)
        serverIds == {serverTasks[i].id : i \in 1..Len(serverTasks)}
        upserted == UpsertLoop(st, serverTasks, {})
        syncedLocalTasks == {i \in localTasks : ~st[i].locallyCreated}
        removed == {i \in syncedLocalTasks : i \notin serverIds}
    IN Restrict(upserted, DOMAIN upserted \ removed)

\* A variant that removes no row the remote set lacks: C10 rejects it.
Reconcile_KeepsAbsent(st, serverTasks) ==
    LET localPendingIds == getLocallyCreatedIds(st) \cup getLocallyModifiedIds(st)
                           \cup getLocallyDeletedIds(st)
    IN UpsertLoop(st, serverTasks, localPendingIds)

\* pullChanges after fetchTasks answered, on a provisioned table.
Reconcile(st, serverTasks) ==
    LET localTasks == getAllTasksIds(st)
        localPendingIds == getLocallyCreatedIds(st) \cup getLocallyModifiedIds(st)
                           \cup getLocallyDeletedIds(st)
        serverIds == {serverTasks[i].id : i \in 1..Len(serverTasks)}
        upserted == UpsertLoop(st, serverTasks, localPendingIds)
        syncedLocalTasks == {i \in localTasks :
                                i \notin localPendingIds /\ ~st[i].locallyCreated}
        removed == {i \in syncedLocalTasks : i \notin serverIds}
    IN Restrict(upserted, DOMAIN upserted \ removed)

\* ----------------------------------------------------------------- actions
\* Date.now(): no earlier than the last value read.
Now == clock..MaxTime

Observe(e, op, c, out) ==
    [op |-> op, c |-> c, out |-> out, result |-> e.result, pub |-> e.pub,
     done |-> e.done, calls |-> e.calls]

\* A step of no engine handler.
NoEv ==
    [op |-> "none", c |-> 0, out |-> "none", result |-> "none", pub |-> <<>>,
     done |-> <<>>, calls |-> <<>>]

\* The handler's work on the engine becomes the next state.
Commit(e, op, c, out) ==
    /\ store' = e.store
    /\ server' = e.server
    /\ cyc' = e.cyc
    /\ isSyncInProgress' = e.inProgress
    /\ syncState' = e.syncState
    /\ lastError' = e.lastError
    /\ lastSyncTime' = e.lastSyncTime
    /\ ev' = Observe(e, op, c, out)

\* Ids no row, no remote task and no task of a batch in flight carries.
FreshIds ==
    Ids \ (DOMAIN store \cup DOMAIN server
           \cup UNION {{cyc[c].todo[i].id : i \in 1..Len(cyc[c].todo)} : c \in Cycles})

\* The history of a step, read off what the step did:
\*   notFound  ids of the stored rows whose plain update answered not-found
\*   remote    ids of the records the service has seen: inserted from the
\*             service (a new row that is not locallyCreated) or created
\*             remotely with success; a new local row starts a new record
\*   unpushed  ids of the records deleteTask removed while still
\*             locallyCreated and in no batch (DeleteTask adds them); an id
\*             leaves when createTask or the service gives it to a new record
\*   created   per cycle in flight, the ids of the rows it marked synced on
\*             a successful remote create
\*   gone      per cycle in flight, the ids of the records deleteTask took
\*             away while the cycle was suspended on their create or update
\*             call (DeleteTask adds them), and the id the service gave
\*             such a record when its create succeeded; an id leaves when
\*             createTask or the service gives it to another record
\*   quiet     per cycle in flight: every remote call of the cycle answered
\*             with success so far and no call of the tasks module or of
\*             destroyDatabase changed the table since the cycle started
BatchIds == UNION {{cyc[c].todo[i].id : i \in 1..Len(cyc[c].todo)} : c \in Cycles}
HistNext ==
    [notFound |->
        (hist.notFound
         \cup IF ev'.op = "updateReturn" /\ ev'.out = "notfound"
              THEN {Head(cyc[ev'.c].todo).id} ELSE {})
        \cap DOMAIN store',
     remote |->
        (hist.remote
         \cup {i \in DOMAIN store' \ DOMAIN store : ~store'[i].locallyCreated}
         \cup IF ev'.op = "createReturn" /\ ev'.out = "ok"
              THEN {Head(cyc[ev'.c].todo).id} ELSE {})
        \ {i \in DOMAIN store' \ DOMAIN store : store'[i].locallyCreated},
     unpushed |->
        hist.unpushed
        \ ({i \in DOMAIN store' \ DOMAIN store : store'[i].locallyCreated}
           \cup (DOMAIN server' \ DOMAIN server)),
     created |->
        [c \in Cycles |->
            IF cyc'[c].pc = "idle" THEN {}
            ELSE hist.created[c]
                 \cup IF /\ ev'.op = "createReturn" /\ ev'.c = c /\ ev'.out = "ok"
                         /\ tableExists /\ Head(cyc[c].todo).id \in DOMAIN store
                      THEN {Head(cyc[c].todo).id} ELSE {}],
     gone |->
        [c \in Cycles |->
            IF cyc'[c].pc = "idle" THEN {}
            ELSE (hist.gone[c]
                  \ ({i \in DOMAIN store' \ DOMAIN store : store'[i].locallyCreated}
                     \cup (DOMAIN server' \ DOMAIN server)))
                 \cup IF /\ ev'.op = "createReturn" /\ ev'.c = c /\ ev'.out = "ok"
                         /\ Head(cyc[c].todo).id \in hist.gone[c]
                      THEN DOMAIN server' \ DOMAIN server ELSE {}],
     quiet |->
        [c \in Cycles |->
            IF cyc'[c].pc = "idle" \/ cyc[c].pc = "idle" THEN TRUE
            ELSE /\ hist.quiet[c]
                 /\ ~(ev'.c = c /\ ev'.out # "ok")
                 /\ ~(ev'.op = "none"
                      /\ (store' # store \/ tableExists' # tableExists))]]

\* The cycles suspended on the create or update call of record id.
SuspendedOn(id) ==
    {c \in Cycles : /\ cyc[c].pc \in {"create", "update"}
                    /\ Head(cyc[c].todo).id = id}

\* ----------------------------------------------------------- syncWithRetry
\* parseInt(process.env.RETRY_DELAY_MS) and parseInt(process.env.ERROR_BACKOFF_MS),
\* in units of time: two values no multiple of the first makes equal.
RETRY_DELAY_MS == 2
ERROR_BACKOFF_MS == 7
\* The largest maxAttempts a call is given.
MaxAttempts == 3

\* A syncWithRetry(max) frame: pc "idle" (no call), "await" (suspended on the
\* sync() of cycle record slot), "sleep" (suspended on sleep(delay)), "done".
\*   attempt    the loop variable
\*   lastError  the local lastError
\*   syncs      sync() invocations so far;  slept  the delays slept so far
IdleRetry ==
    [pc |-> "idle", max |-> 0, attempt |-> 0, slot |-> 0, lastError |-> NullErr,
     syncs |-> 0, slept |-> <<>>, result |-> "none"]

\* The delay chosen after a failed attempt: lastError?.includes('Unauthorized').
RetryDelay(error, attempt) ==
    IF error = "unauth" THEN ERROR_BACKOFF_MS ELSE RETRY_DELAY_MS * attempt

\* The loop body after sync() resolved to false: error is getSyncStatus().error.
RetryFailed(r, error) ==
    IF r.attempt < r.max
    THEN [r EXCEPT !.pc = "sleep", !.lastError = error,
                   !.slept = Append(@, RetryDelay(error, r.attempt))]
    ELSE [r EXCEPT !.pc = "done", !.lastError = error, !.result = "false"]

\* The loop from its test on: attempt r.attempt calls sync(), which made e of
\* the engine e0; a sync() that returned at once resumes the loop at once.
RetryAttempt(r, e0, e) ==
    IF r.attempt > r.max THEN [r EXCEPT !.pc = "done", !.result = "false"]
    ELSE LET r1 == [r EXCEPT !.syncs = @ + 1]
         IN IF e.result = "false" THEN RetryFailed(r1, e.lastError)
            ELSE [r1 EXCEPT !.pc = "await",
                            !.slot = CHOOSE c \in Cycles :
                                        e0.cyc[c].pc = "idle" /\ e.cyc[c].pc # "idle"]

\* The awaited sync() resolves in the step that ends its cycle: the loop
\* resumes in the same turn of the event loop.
RetryResume ==
    IF retry.pc = "await" /\ cyc[retry.slot].pc # "idle" /\ cyc'[retry.slot].pc = "idle"
    THEN IF ev'.result = "true" THEN [retry EXCEPT !.pc = "done", !.result = "true"]
         ELSE RetryFailed(retry, lastError')
    ELSE retry

\* ------------------------------------------------------------------ useSync
\* The hook before it is mounted: useState(false), useState(0), and
\* useNetwork's useState(null).
\*   seen       the dependencies the auto-trigger effect last ran with
\*   byFailure  the dependencies last changed when a cycle ended in failure,
\*              and only isSyncing changed
Unmounted ==
    [mounted |-> FALSE, isSyncing |-> FALSE, pendingChanges |-> 0,
     isConnected |-> FALSE, seen |-> <<FALSE, FALSE, 0>>, byFailure |-> FALSE]

\* [isConnected, isSyncing, pendingChanges]; triggerSync changes with the
\* first two.
Deps(h) == <<h.isConnected, h.isSyncing, h.pendingChanges>>

\* The hook's status listener, on the statuses one step published: the
\* state updates are batched, the last one stands.
StatusListener(h, pub) ==
    IF pub = <<>> THEN h
    ELSE LET status == pub[Len(pub)]
         IN [h EXCEPT !.isSyncing = (status.state = "syncing"),
                      !.pendingChanges = status.pendingChanges]

\* What a step of the engine or of the connectivity monitor does to a
\* mounted hook: the status listener, and useNetwork's NetInfo listener.
HookStep ==
    IF ~hook.mounted THEN hook
    ELSE LET h1 == StatusListener(hook, ev'.pub)
             h2 == IF ev'.op = "networkChange"
                   THEN [h1 EXCEPT !.isConnected = (netStatus' = "online")]
                   ELSE h1
         IN IF Deps(h2) = Deps(hook) THEN h2
            ELSE [h2 EXCEPT !.byFailure =
                    /\ ev'.result = "false"
                    /\ \E c \in Cycles : cyc[c].pc # "idle" /\ cyc'[c].pc = "idle"
                    /\ h2.isConnected = hook.isConnected
                    /\ h2.pendingChanges = hook.pendingChanges]

\* ---------------------------------------------------------------- listeners
\* The listeners one registry holds at most, the engine's own not counted.
MaxListeners == 2
\* A registered callback returns or throws; "engine" is the connectivity
\* listener initializeSync registers.
ListenerKinds == {"ok", "throws"}

\* No pass over a registry in this step.
NoPass == [ran |-> FALSE, called |-> <<>>, escaped |-> FALSE]
NoPasses == [status |-> NoPass, complete |-> NoPass, network |-> NoPass]

\* statusListeners, completeListeners and the monitor's listeners, in
\* insertion order, with the passes of the last step.
NoListeners ==
    [status |-> <<>>, complete |-> <<>>, network |-> <<>>, last |-> NoPasses]

\* A variant of the pass without the try/catch around each call: the first
\* throwing listener ends it and the exception leaves the pass.  C31 rejects
\* it.
notifyListeners_NoCatch(ls) ==
    LET T == {i \in 1..Len(ls) : ls[i] = "throws"}
    IN IF T = {} THEN [ran |-> TRUE, called |-> [i \in 1..Len(ls) |-> i],
                       escaped |-> FALSE]
       ELSE LET m == CHOOSE i \in T : \A j \in T : i <= j
            IN [ran |-> TRUE, called |-> [i \in 1..m |-> i], escaped |-> TRUE]

\* listeners.forEach((listener) => { try { listener(x) } catch { log } }):
\* the listeners called, in order, and whether an exception left the pass.
notifyListeners(ls) ==
    [ran |-> TRUE, called |-> [i \in 1..Len(ls) |-> i], escaped |-> FALSE]

\* The engine's connectivity listeners a pass over ls reaches.
EnginesCalled(ls) ==
    LET p == notifyListeners(ls)
    IN Cardinality({i \in 1..Len(p.called) : ls[p.called[i]] = "engine"})

\* What a step does to the registries: initializeSync adds the engine's
\* connectivity listener; every published status is a pass over
\* statusListeners, every completion a pass over completeListeners, every
\* NetInfo event a pass over the monitor's listeners.
RegStep ==
    [reg EXCEPT
        !.network = IF ev'.op = "initializeSync" THEN Append(@, "engine") ELSE @,
        !.last = [status |-> IF ev'.pub # <<>> THEN notifyListeners(reg.status)
                             ELSE NoPass,
                  complete |-> IF ev'.done # <<>> THEN notifyListeners(reg.complete)
                               ELSE NoPass,
                  network |-> IF ev'.op = "networkChange"
                              THEN notifyListeners(reg.network) ELSE NoPass]]

\* ------------------------------------------------------------ waitForOnline
\* No waitForOnline call yet.
\*   resolved   the closure's flag
\*   resolves   the values resolve() was called with, in order
\*   listening  the call's listener is in the monitor's registry
\*   timer      the call's timeout is pending
NoWait ==
    [pc |-> "idle", resolved |-> FALSE, resolves |-> <<>>, listening |-> FALSE,
     timer |-> FALSE]

\* A variant of the listener that resolves and leaves its registration and
\* its timer in place: C32 rejects it.
waitListener_KeepsTimer(w, status) ==
    IF status = "online" /\ ~w.resolved
    THEN [w EXCEPT !.pc = "done", !.resolved = TRUE,
                   !.resolves = Append(@, TRUE)]
    ELSE w

\* The listener waitForOnline registers: at the first online state it
\* clears the timeout, unsubscribes and resolves true.
waitListener(w, status) ==
    IF status = "online" /\ ~w.resolved
    THEN [w EXCEPT !.pc = "done", !.resolved = TRUE, !.timer = FALSE,
                   !.listening = FALSE, !.resolves = Append(@, TRUE)]
    ELSE w

\* The callback of waitForOnline's setTimeout.
waitTimeout(w) ==
    IF ~w.resolved
    THEN [w EXCEPT !.pc = "done", !.resolved = TRUE, !.timer = FALSE,
                   !.listening = FALSE, !.resolves = Append(@, FALSE)]
    ELSE [w EXCEPT !.timer = FALSE]

\* waitForOnline(timeoutMs): resolves at once when online, else registers
\* the listener (called at once with the current state) and sets the timer.
waitForOnline(online) ==
    IF online THEN [NoWait EXCEPT !.pc = "done", !.resolves = <<TRUE>>]
    ELSE [NoWait EXCEPT !.pc = "waiting", !.listening = TRUE, !.timer = TRUE]

\* What a step does to the call: a NetInfo event calls its listener while
\* it is registered.
WaitStep ==
    IF wait.listening /\ ev'.op = "networkChange"
    THEN waitListener(wait, netStatus')
    ELSE wait

\* One more handler invocation or environment event.
Event == events < MaxEvents /\ events' = events + 1

\* A free cycle record is there if sync() goes past its two guards.
CanEnter == isSyncInProgress \/ ~isOnline \/ FreeCycles(Engine) # {}

\* sync() called by the UI (useSync.triggerSync, pull to refresh).
ManualSync ==
    /\ CanEnter
    /\ Commit(SyncEnter(Engine), "sync", 0, "none")
    /\ Event
    /\ UNCHANGED <<tableExists, clock, netStatus, netListeners>>
    /\ hist' = HistNext
    /\ retry' = RetryResume
    /\ UNCHANGED <<syncInterval, timers>>
    /\ hook' = HookStep
    /\ reg' = RegStep
    /\ wait' = WaitStep

\* api.createTask answers for cycle c: the service stores the task under an
\* id of its own and returns it, or the call fails.
CreateReturn(c) ==
    /\ cyc[c].pc = "create"
    /\ LET k == cyc[c]
           t == Head(k.todo)
           p == CallOf(k)
       IN \/ \E sid \in FreshIds, ts \in Times :
                LET e == [Engine EXCEPT !.server =
                            [i \in DOMAIN server \cup {sid} |->
                                IF i = sid
                                THEN ApiTask(p.title, p.description, p.status, ts)
                                ELSE server[i]]]
                IN Commit(IF tableExists
                          THEN PushStep(e, c, markTaskAsSynced(store, t.id, ts), k.errs)
                          ELSE PushStep(e, c, store,
                                        Append(k.errs, Wrap("msg"))),
                          "createReturn", c, "ok")
          \/ \E f \in FailKinds :
                Commit(PushStep(Engine, c, store,
                                Append(k.errs, Wrap(MsgOf(f)))),
                       "createReturn", c, f)
    /\ UNCHANGED <<tableExists, clock, netStatus, netListeners, events>>
    /\ hist' = HistNext
    /\ retry' = RetryResume
    /\ UNCHANGED <<syncInterval, timers>>
    /\ hook' = HookStep
    /\ reg' = RegStep
    /\ wait' = WaitStep

\* A variant in which the local task also wins a tie: C11 rejects it.
handleConflict_TieGoesLocal(e, c, localTask, serverTask) ==
    IF localTask.lastUpdatedAt >= serverTask.lastUpdatedAt
    THEN Suspend(e, c, [e.cyc[c] EXCEPT !.pc = "repush",
                                        !.base = serverTask.lastUpdatedAt])
    ELSE IF tableExists
    THEN PushStep(e, c, upsertTaskFromServer(e.store, serverTask), e.cyc[c].errs)
    ELSE SyncCatch(e, c, "msg")

\* handleConflict up to its remote call or its return.
handleConflict(e, c, localTask, serverTask) ==
    IF localTask.lastUpdatedAt > serverTask.lastUpdatedAt
    THEN Suspend(e, c, [e.cyc[c] EXCEPT !.pc = "repush",
                                        !.base = serverTask.lastUpdatedAt])
    ELSE IF tableExists
    THEN PushStep(e, c, upsertTaskFromServer(e.store, serverTask), e.cyc[c].errs)
    ELSE SyncCatch(e, c, "msg")

\* api.updateTask answers for cycle c.
UpdateReturn(c) ==
    /\ cyc[c].pc = "update"
    /\ LET k == cyc[c]
           t == Head(k.todo)
           p == CallOf(k)
       IN \/ /\ t.id \in DOMAIN server
             /\ \E ts \in Times :
                LET e == [Engine EXCEPT !.server = [@ EXCEPT ![t.id] =
                            ApiTask(p.title, p.description, p.status, ts)]]
                IN Commit(IF tableExists
                          THEN PushStep(e, c, markTaskAsSynced(store, t.id, ts), k.errs)
                          ELSE PushStep(e, c, store,
                                        Append(k.errs, Wrap("msg"))),
                          "updateReturn", c, "ok")
          \/ /\ t.id \in DOMAIN server
             /\ Commit(handleConflict(Engine, c, t,
                          [id |-> t.id, title |-> server[t.id].title,
                           description |-> server[t.id].description,
                           status |-> server[t.id].status,
                           lastUpdatedAt |-> server[t.id].lastUpdatedAt]),
                       "updateReturn", c, "conflict")
          \/ /\ t.id \notin DOMAIN server
             /\ Commit(IF tableExists
                       THEN PushStep(Engine, c, markTaskAsConflict(store, t.id),
                                     Append(k.errs, "msg"))
                       ELSE SyncCatch(Engine, c, "msg"),
                       "updateReturn", c, "notfound")
          \/ \E f \in FailKinds :
                Commit(PushStep(Engine, c, store,
                                Append(k.errs, Wrap(MsgOf(f)))),
                       "updateReturn", c, f)
    /\ UNCHANGED <<tableExists, clock, netStatus, netListeners, events>>
    /\ hist' = HistNext
    /\ retry' = RetryResume
    /\ UNCHANGED <<syncInterval, timers>>
    /\ hook' = HookStep
    /\ reg' = RegStep
    /\ wait' = WaitStep

\* The re-push of handleConflict answers for cycle c.
RepushReturn(c) ==
    /\ cyc[c].pc = "repush"
    /\ LET k == cyc[c]
           t == Head(k.todo)
           p == CallOf(k)
       IN \/ /\ t.id \in DOMAIN server
             /\ \E ts \in Times :
                LET e == [Engine EXCEPT !.server = [@ EXCEPT ![t.id] =
                            ApiTask(p.title, p.description, p.status, ts)]]
                IN Commit(IF tableExists
                          THEN PushStep(e, c, markTaskAsSynced(store, t.id, ts), k.errs)
                          ELSE SyncCatch(e, c, "msg"),
                          "repushReturn", c, "ok")
          \/ \E f \in FailKinds :
                Commit(IF tableExists
                       THEN PushStep(Engine, c, markTaskAsConflict(store, t.id), k.errs)
                       ELSE SyncCatch(Engine, c, "msg"),
                       "repushReturn", c, f)
    /\ UNCHANGED <<tableExists, clock, netStatus, netListeners, events>>
    /\ hist' = HistNext
    /\ retry' = RetryResume
    /\ UNCHANGED <<syncInterval, timers>>
    /\ hook' = HookStep
    /\ reg' = RegStep
    /\ wait' = WaitStep

\* api.deleteTask answers for cycle c.
DeleteReturn(c) ==
    /\ cyc[c].pc = "delete"
    /\ LET k == cyc[c]
           t == Head(k.todo)
       IN \/ /\ t.id \in DOMAIN server
             /\ LET e == [Engine EXCEPT !.server =
                            Restrict(server, DOMAIN server \ {t.id})]
                IN Commit(IF tableExists
                          THEN PushStep(e, c, removeSyncedDeletedTask(store, t.id), k.errs)
                          ELSE PushStep(e, c, store,
                                        Append(k.errs, Wrap("msg"))),
                          "deleteReturn", c, "ok")
          \/ /\ t.id \notin DOMAIN server
             /\ Commit(IF tableExists
                       THEN PushStep(Engine, c, removeSyncedDeletedTask(store, t.id),
                                     k.errs)
                       ELSE SyncCatch(Engine, c, "msg"),
                       "deleteReturn", c, "notfound")
          \/ \E f \in FailKinds :
                Commit(PushStep(Engine, c, store,
                                Append(k.errs, Wrap(MsgOf(f)))),
                       "deleteReturn", c, f)
    /\ UNCHANGED <<tableExists, clock, netStatus, netListeners, events>>
    /\ hist' = HistNext
    /\ retry' = RetryResume
    /\ UNCHANGED <<syncInterval, timers>>
    /\ hook' = HookStep
    /\ reg' = RegStep
    /\ wait' = WaitStep

\* A variant of pullChanges' catch block that flags the synced rows as
\* modified again: C29 rejects it.
pullCatch_UndoesPush(e, msg) ==
    [e |-> [e EXCEPT !.store =
               [id \in DOMAIN e.store |->
                   IF e.store[id].syncStatus = "synced"
                   THEN [e.store[id] EXCEPT !.syncStatus = "pending",
                                            !.locallyModified = TRUE]
                   ELSE e.store[id]]],
     success |-> FALSE, error |-> msg]

\* pullChanges' catch block: the result of a pull that threw.
pullCatch(e, msg) == [e |-> e, success |-> FALSE, error |-> msg]

\* The ids that contain 'undefined': none of the service's, 0 stands for
\* them where a fetched set is given one.
UndefinedIds == {0}

\* pullChanges' test before it reconciles:
\* serverTasks.length > 0 || !serverTasks.some(t => t.id.includes('undefined')).
ShouldReconcile(serverTasks) ==
    \/ Len(serverTasks) > 0
    \/ ~\E i \in 1..Len(serverTasks) : serverTasks[i].id \in UndefinedIds

\* pullChanges' store statements on a provisioned table.
PullStore(st, serverTasks) ==
    IF ShouldReconcile(serverTasks) THEN Reconcile(st, serverTasks) ELSE st

\* pullChanges after fetchTasks answered: its result {success, error}.
pullChanges(e, serverTasks) ==
    IF tableExists
    THEN [e |-> [e EXCEPT !.store = PullStore(e.store, serverTasks)],
          success |-> TRUE, error |-> ""]
    ELSE IF serverTasks = <<>>
    THEN [e |-> e, success |-> TRUE, error |-> ""]
    ELSE pullCatch(e, "msg")

\* api.fetchTasks answers for cycle c: the pull, then the end of sync().
ListReturn(c) ==
    /\ cyc[c].pc = "list"
    /\ \E now \in Now :
        /\ clock' = now
        /\ \/ LET r == pullChanges(Engine, fetchTasks(server))
              IN Commit(SyncFinish(r.e, c, cyc[c].errs, r.success, r.error, now),
                        "listReturn", c, IF r.success THEN "ok" ELSE "storage")
           \/ \E f \in FailKinds :
                LET r == pullCatch(Engine, MsgOf(f))
                IN Commit(SyncFinish(r.e, c, cyc[c].errs, r.success, r.error, now),
                          "listReturn", c, f)
    /\ UNCHANGED <<tableExists, netStatus, netListeners, events>>
    /\ hist' = HistNext
    /\ retry' = RetryResume
    /\ UNCHANGED <<syncInterval, timers>>
    /\ hook' = HookStep
    /\ reg' = RegStep
    /\ wait' = WaitStep

\* --------------------------------------------------- local store handlers
\* createTask(input): provisions the table when it is missing, then inserts.
CreateTask ==
    /\ \E id \in FreshIds, title \in Titles, now \in Now :
          /\ clock' = now
          /\ store' = [i \in DOMAIN store \cup {id} |->
                          IF i = id THEN NewRow(title, NoDesc, now) ELSE store[i]]
    /\ tableExists' = TRUE
    /\ ev' = NoEv
    /\ Event
    /\ UNCHANGED <<server, netStatus, netListeners, syncState, lastSyncTime,
                   lastError, isSyncInProgress, cyc>>
    /\ hist' = HistNext
    /\ retry' = RetryResume
    /\ UNCHANGED <<syncInterval, timers>>
    /\ hook' = HookStep
    /\ reg' = RegStep
    /\ wait' = WaitStep

\* updateTask(id, {title}) from the task screen.
UpdateTask ==
    /\ tableExists
    /\ \E id \in DOMAIN store, title \in Titles, now \in Now :
          /\ clock' = now
          /\ store' = updateTask(store, id,
                         [title |-> title, description |-> Undef, status |-> Undef],
                         now)
    /\ ev' = NoEv
    /\ Event
    /\ UNCHANGED <<tableExists, server, netStatus, netListeners, syncState,
                   lastSyncTime, lastError, isSyncInProgress, cyc>>
    /\ hist' = HistNext
    /\ retry' = RetryResume
    /\ UNCHANGED <<syncInterval, timers>>
    /\ hook' = HookStep
    /\ reg' = RegStep
    /\ wait' = WaitStep

ToggleTaskComplete ==
    /\ tableExists
    /\ \E id \in DOMAIN store, now \in Now :
          /\ clock' = now
          /\ store' = toggleTaskComplete(store, id, now)
    /\ ev' = NoEv
    /\ Event
    /\ UNCHANGED <<tableExists, server, netStatus, netListeners, syncState,
                   lastSyncTime, lastError, isSyncInProgress, cyc>>
    /\ hist' = HistNext
    /\ retry' = RetryResume
    /\ UNCHANGED <<syncInterval, timers>>
    /\ hook' = HookStep
    /\ reg' = RegStep
    /\ wait' = WaitStep

DeleteTask ==
    /\ tableExists
    /\ ev' = NoEv
    /\ Event
    /\ UNCHANGED <<tableExists, server, netStatus, netListeners, syncState,
                   lastSyncTime, lastError, isSyncInProgress, cyc>>
    /\ \E id \in DOMAIN store, now \in Now :
          /\ clock' = now
          /\ store' = deleteTask(store, id, now)
          /\ hist' = [HistNext EXCEPT !.unpushed =
                         @ \cup IF store[id].locallyCreated /\ id \notin BatchIds
                                THEN {id} ELSE {},
                                  !.gone =
                         [c \in Cycles |->
                            @[c] \cup IF c \in SuspendedOn(id)
                                         /\ ~store[id].locallyDeleted
                                      THEN {id} ELSE {}]]
    /\ retry' = RetryResume
    /\ UNCHANGED <<syncInterval, timers>>
    /\ hook' = HookStep
    /\ reg' = RegStep
    /\ wait' = WaitStep

\* destroyDatabase on sign-out: DROP TABLE.
DestroyDatabase ==
    /\ tableExists
    /\ tableExists' = FALSE
    /\ store' = <<>>
    /\ ev' = NoEv
    /\ Event
    /\ UNCHANGED <<server, clock, netStatus, netListeners, syncState, lastSyncTime,
                   lastError, isSyncInProgress, cyc>>
    /\ hist' = HistNext
    /\ retry' = RetryResume
    /\ UNCHANGED <<syncInterval, timers>>
    /\ hook' = HookStep
    /\ reg' = RegStep
    /\ wait' = WaitStep

\* ------------------------------------------------------ engine's triggers
\* The listener initializeSync registers: its argument is the NetworkState
\* object, which is truthy whatever the status.
NetworkListener(e) == IF ~e.inProgress THEN SyncEnter(e) ELSE e

RECURSIVE NotifyNetwork(_, _)
NotifyNetwork(e, n) == IF n = 0 THEN e ELSE NotifyNetwork(NetworkListener(e), n - 1)

\* initializeSync(): provisions the table, clears the in-progress flag,
\* registers a listener (called at once with the current state), then sync().
InitializeSync ==
    /\ ~isOnline \/ FreeCycles(Engine) # {}
    /\ tableExists' = TRUE
    /\ netListeners' = netListeners + 1
    /\ Commit(SyncEnter(NetworkListener([Engine EXCEPT !.inProgress = FALSE])),
              "initializeSync", 0, "none")
    /\ Event
    /\ UNCHANGED <<clock, netStatus>>
    /\ hist' = HistNext
    /\ retry' = RetryResume
    /\ UNCHANGED <<syncInterval, timers>>
    /\ hook' = HookStep
    /\ reg' = RegStep
    /\ wait' = WaitStep

\* handleNetworkChange(state): the new status (every NetInfo event, also one
\* that leaves the status as it was), then every listener.
NetworkChange ==
    /\ \E s \in {"online", "offline"} :
          /\ netStatus' = s
          /\ s # "online" \/ isSyncInProgress \/ netListeners = 0
               \/ FreeCycles(Engine) # {}
          /\ LET e == NotifyNetwork([Engine EXCEPT !.online = (s = "online")],
                                    EnginesCalled(reg.network))
             IN Commit(e, "networkChange", 0, "none")
    /\ Event
    /\ UNCHANGED <<tableExists, clock, netListeners>>
    /\ hist' = HistNext
    /\ retry' = RetryResume
    /\ UNCHANGED <<syncInterval, timers>>
    /\ hook' = HookStep
    /\ reg' = RegStep
    /\ wait' = WaitStep

\* ------------------------------------------------- the service's other users
\* Another device of the user changes a task on the service.
ServerEdit ==
    /\ \E id \in DOMAIN server, title \in Titles, ts \in Times :
          /\ title # server[id].title
          /\ server' = [server EXCEPT ![id] = [@ EXCEPT !.title = title,
                                                        !.lastUpdatedAt = ts]]
    /\ ev' = NoEv
    /\ Event
    /\ UNCHANGED <<store, tableExists, clock, netStatus, netListeners, syncState,
                   lastSyncTime, lastError, isSyncInProgress, cyc>>
    /\ hist' = HistNext
    /\ retry' = RetryResume
    /\ UNCHANGED <<syncInterval, timers>>
    /\ hook' = HookStep
    /\ reg' = RegStep
    /\ wait' = WaitStep

\* Another device of the user deletes a task on the service.
ServerDelete ==
    /\ \E id \in DOMAIN server : server' = Restrict(server, DOMAIN server \ {id})
    /\ ev' = NoEv
    /\ Event
    /\ UNCHANGED <<store, tableExists, clock, netStatus, netListeners, syncState,
                   lastSyncTime, lastError, isSyncInProgress, cyc>>
    /\ hist' = HistNext
    /\ retry' = RetryResume
    /\ UNCHANGED <<syncInterval, timers>>
    /\ hook' = HookStep
    /\ reg' = RegStep
    /\ wait' = WaitStep

\* ------------------------------------------------------------ specification
\* The table and the service outlive the process: at start both are empty,
\* or the service holds a task of an earlier session, which the table either
\* has not seen or holds as pulled; or the table holds a pulled task that
\* another device has deleted on the service since.
InitTask == ApiTask("a", NoDesc, "pending", 1)
InitPulled ==
    upsertTaskFromServer(<<>>, [id |-> 1, title |-> InitTask.title,
        description |-> InitTask.description, status |-> InitTask.status,
        lastUpdatedAt |-> InitTask.lastUpdatedAt])
InitStores ==
    {[table |-> FALSE, store |-> <<>>, server |-> <<>>],
     [table |-> FALSE, store |-> <<>>, server |-> <<InitTask>>],
     [table |-> TRUE, server |-> <<InitTask>>, store |-> InitPulled],
     [table |-> TRUE, server |-> <<>>, store |-> InitPulled]}

Init ==
    /\ \E i \in InitStores :
          /\ store = i.store
          /\ tableExists = i.table
          /\ server = i.server
    /\ clock = 1
    /\ netStatus = "unknown"
    /\ netListeners = 0
    /\ syncState = "idle"
    /\ lastSyncTime = Null
    /\ lastError = NullErr
    /\ isSyncInProgress = FALSE
    /\ cyc = [c \in Cycles |-> IdleCycle]
    /\ events = 0
    /\ ev = NoEv
    /\ hist = [notFound |-> {}, remote |-> DOMAIN store, unpushed |-> {},
               created |-> [c \in Cycles |-> {}], gone |-> [c \in Cycles |-> {}],
               quiet |-> [c \in Cycles |-> TRUE]]
    /\ retry = IdleRetry
    /\ syncInterval = Null
    /\ timers = {}
    /\ hook = Unmounted
    /\ reg = NoListeners
    /\ wait = NoWait

Next ==
    \/ ManualSync
    \/ InitializeSync
    \/ NetworkChange
    \/ \E c \in Cycles : CreateReturn(c)
    \/ \E c \in Cycles : UpdateReturn(c)
    \/ \E c \in Cycles : RepushReturn(c)
    \/ \E c \in Cycles : DeleteReturn(c)
    \/ \E c \in Cycles : ListReturn(c)
    \/ CreateTask
    \/ UpdateTask
    \/ ToggleTaskComplete
    \/ DeleteTask
    \/ DestroyDatabase
    \/ ServerEdit
    \/ ServerDelete

Spec == Init /\ [][Next]_vars

\* The remote calls answer: every suspended cycle is resumed in the end.
Return(c) ==
    CreateReturn(c) \/ UpdateReturn(c) \/ RepushReturn(c) \/ DeleteReturn(c)
    \/ ListReturn(c)

\* Every remote call of a cycle in flight is answered: weak fairness of
\* Return(c).  Return(c) is enabled exactly while cycle c is in flight (each
\* awaited call has at least one outcome and its continuation moves c), so
\* WF_vars(Return(c)) is written with that state predicate in the place of
\* ENABLED <<Return(c)>>_vars.
ReturnFair(c) == []<>(cyc[c].pc = "idle") \/ []<><<Return(c)>>_vars

FairSpec == Spec /\ \A c \in Cycles : ReturnFair(c)

\* ------------------------------------------------------------------ claims
InFlight == {c \in Cycles : cyc[c].pc # "idle"}
CurrentStatus == getSyncStatus(Engine)
ReturnOps == {"createReturn", "updateReturn", "repushReturn", "deleteReturn",
              "listReturn"}
\* Cycle c ends in this step.
Completes(c) == cyc[c].pc # "idle" /\ cyc'[c].pc = "idle"
Flagged(r) == r.locallyCreated \/ r.locallyModified \/ r.locallyDeleted
SameFields(r, t) ==
    r.title = t.title /\ r.description = t.description /\ r.status = t.status

\* C1: in every reachable state at most one sync cycle body is between its
\* entry and its completion.
C1_AtMostOneCycleInFlight == Cardinality(InFlight) <= 1

\* C2: when the create, update or re-push call of a record answers and the
\* record was edited by updateTask while the call was in flight (it is still
\* flagged for push and its fields differ from the pushed snapshot), the
\* record is afterwards still flagged for push or the service holds its
\* field values.
EditedInFlight(c) ==
    /\ cyc[c].pc \in {"create", "update", "repush"}
    /\ LET t == Head(cyc[c].todo)
       IN /\ t.id \in DOMAIN store
          /\ store[t.id].locallyCreated \/ store[t.id].locallyModified
          /\ ~SameFields(store[t.id], t)
C2_EditNeverLost ==
    [][\A c \in Cycles :
        (EditedInFlight(c) /\ ev'.c = c /\ ev'.op \in ReturnOps)
        => LET id == Head(cyc[c].todo).id
           IN /\ id \in DOMAIN store'
              /\ \/ store'[id].locallyCreated \/ store'[id].locallyModified
                 \/ \E s \in DOMAIN server' : SameFields(store'[id], server'[s])]_vars

\* C3: sync() called while a cycle is in flight returns false, issues no
\* remote call and changes nothing.
C3_BusySyncIsNoOp ==
    [][(ev'.op = "sync" /\ InFlight # {})
        => /\ ev'.result = "false"
           /\ ev'.calls = <<>>
           /\ UNCHANGED <<syncState, lastSyncTime, lastError, store, cyc>>]_vars

\* C4 as claimed: sync() called while not online returns false, issues no
\* remote call, leaves state, lastSyncTime, lastError and the in-progress
\* flag unchanged, and publishes the current status.
OfflineSyncRejected ==
    /\ ev'.result = "false"
    /\ ev'.calls = <<>>
    /\ UNCHANGED <<syncState, lastSyncTime, lastError, isSyncInProgress, store, cyc>>
    /\ ev'.pub = <<CurrentStatus'>>
C4_OfflineSyncPublishes ==
    [][(ev'.op = "sync" /\ ~isOnline) => OfflineSyncRejected]_vars

\* C4 amended: the same of sync() called while not online and while the
\* in-progress flag is clear.
C4_OfflineIdleSyncPublishes ==
    [][(ev'.op = "sync" /\ ~isOnline /\ ~isSyncInProgress) => OfflineSyncRejected]_vars

\* An offline sync() was rejected in the error state and published it.
C4_Witness ==
    /\ ev.op = "sync" /\ ~isOnline /\ ev.result = "false"
    /\ syncState = "error" /\ ~isSyncInProgress
    /\ ev.pub = <<CurrentStatus>>

\* C5: a cycle issues fetchTasks only when its created, modified and deleted
\* batches are used up, and issues no create, update or delete call after it.
BatchesDone(c) ==
    LET k == cyc[c]
    IN /\ Len(k.todo) <= 1
       /\ k.pc = "idle" => getLocallyCreatedIds(store') = {}
       /\ k.pc \in {"idle", "create"} => getLocallyModifiedIds(store') = {}
       /\ k.pc \in {"idle", "create", "update", "repush"}
            => getLocallyDeletedIds(store') = {}
C5_PushPrecedesPull ==
    [][\A c \in Cycles :
        /\ cyc[c].pc = "list" => cyc'[c].pc \in {"list", "idle"}
        /\ (cyc[c].pc # "list" /\ cyc'[c].pc = "list") => BatchesDone(c)]_vars

\* A conflict re-push answered and the cycle went on to fetchTasks.
C5_Witness == ev.op = "repushReturn" /\ cyc[ev.c].pc = "list"

\* C6: every cycle whose remote calls answer completes, and on completion
\* the in-progress flag is false, the state is idle or error, sync() has
\* returned and the status published last is the current one.
C6_FlagNeverSticks ==
    /\ [][\A c \in Cycles :
            Completes(c)
            => /\ ~isSyncInProgress'
               /\ syncState' \in {"idle", "error"}
               /\ ev'.result \in {"true", "false"}
               /\ ev'.pub # <<>>
               /\ ev'.pub[Len(ev'.pub)] = CurrentStatus']_vars
    /\ \A c \in Cycles : (cyc[c].pc # "idle") ~> (cyc[c].pc = "idle")

\* A cycle ended by an exception (a store call threw outside the loops' try).
C6_Witness ==
    /\ ev.op \in {"updateReturn", "repushReturn", "deleteReturn"}
    /\ cyc[ev.c].pc = "idle" /\ ev.result = "false"
    /\ ~isSyncInProgress /\ syncState = "error"

\* C7: a cycle that completes returns true exactly when its push recorded no
\* error and its pull succeeded; on true the state is idle, lastError is
\* null, lastSyncTime is the completion time and the completion listeners
\* get success; on false the state is error, lastError is the message the
\* completion listeners get with the failure, and lastSyncTime is unchanged.
C7_ResultMatchesOutcome ==
    [][\A c \in Cycles :
        Completes(c)
        => /\ ev'.result = "true"
                <=> (ev'.op = "listReturn" /\ cyc[c].errs = <<>> /\ ev'.out = "ok")
           /\ ev'.result = "true"
                => /\ syncState' = "idle" /\ lastError' = NullErr
                   /\ lastSyncTime' = clock'
                   /\ ev'.done = <<[success |-> TRUE, error |-> ""]>>
           /\ ev'.result # "true"
                => /\ ev'.result = "false" /\ syncState' = "error"
                   /\ ev'.done = <<[success |-> FALSE, error |-> lastError']>>
                   /\ lastSyncTime' = lastSyncTime]_vars

\* C8: a remote call of a cycle that fails (a conflict answer and a not-found
\* answer to a delete apart) is recorded as an error of the cycle, the errors
\* recorded stay until the cycle ends, and a cycle with an error recorded or
\* a failed fetchTasks ends with sync() returning false, the state error and
\* lastError set to the failure's message.
FailedAnswer ==
    /\ ev'.op \in ReturnOps
    /\ \/ ev'.out \in FailKinds \cup {"other"}
       \/ ev'.op = "updateReturn" /\ ev'.out = "notfound"
EndsInError ==
    /\ ev'.result = "false"
    /\ syncState' = "error"
    /\ lastError' # NullErr
    /\ ev'.done = <<[success |-> FALSE, error |-> lastError']>>
C8_NoFailureSwallowed ==
    [][\A c \in Cycles :
        /\ (FailedAnswer /\ ev'.c = c)
              => IF Completes(c) THEN EndsInError ELSE cyc'[c].errs # <<>>
        /\ (cyc[c].errs # <<>> /\ ~Completes(c)) => cyc'[c].errs # <<>>
        /\ (cyc[c].errs # <<>> /\ Completes(c)) => EndsInError]_vars

\* C9: the pull leaves every row that is flagged locallyCreated,
\* locallyModified or locallyDeleted when fetchTasks answers in the store
\* with its fields, timestamps and flags unchanged.
C9_PullKeepsPendingRows ==
    [][ev'.op = "listReturn"
        => \A id \in DOMAIN store :
              Flagged(store[id]) => id \in DOMAIN store' /\ store'[id] = store[id]]_vars

\* A pull reconciled while a flagged row differed from the remote task of
\* its id, or while a flagged row that came from the service had no remote
\* task.
C9_Witness ==
    /\ ev.op = "listReturn" /\ ev.out = "ok" /\ tableExists
    /\ \E id \in DOMAIN store :
          /\ Flagged(store[id])
          /\ \/ id \in DOMAIN server /\ ~SameFields(store[id], server[id])
             \/ id \notin DOMAIN server /\ ~store[id].locallyCreated

\* C10: after a successful pull every remote task whose id is not pending
\* locally is a row with the remote fields, lastUpdatedAt =
\* serverLastUpdatedAt = the remote timestamp, syncStatus synced and no
\* flag; every row that was not pending, not locallyCreated and has no
\* remote task is gone; an empty store has become the remote set.
Mirror(r, t) ==
    /\ SameFields(r, t)
    /\ r.lastUpdatedAt = t.lastUpdatedAt
    /\ r.serverLastUpdatedAt = t.lastUpdatedAt
    /\ r.syncStatus = "synced"
    /\ ~Flagged(r)
PendingIds(st) ==
    getLocallyCreatedIds(st) \cup getLocallyModifiedIds(st) \cup getLocallyDeletedIds(st)
C10_PullMirrorsRemote ==
    [][(ev'.op = "listReturn" /\ ev'.out = "ok")
        => /\ \A s \in DOMAIN server \ PendingIds(store) :
                s \in DOMAIN store' /\ Mirror(store'[s], server[s])
           /\ \A i \in DOMAIN store \ PendingIds(store) :
                (~store[i].locallyCreated /\ i \notin DOMAIN server)
                => i \notin DOMAIN store'
           /\ DOMAIN store = {}
                => /\ DOMAIN store' = DOMAIN server
                   /\ \A s \in DOMAIN server : Mirror(store'[s], server[s])]_vars

\* A pull succeeded against a remote set of at least one task and the store
\* holds exactly its mirror.
C10_Witness ==
    /\ ev.op = "listReturn" /\ ev.out = "ok" /\ ev.result = "true"
    /\ DOMAIN server # {}
    /\ DOMAIN store = DOMAIN server
    /\ \A s \in DOMAIN server : Mirror(store[s], server[s])

IssuesUpdate(c) ==
    /\ cyc'[c].pc = "update"
    /\ cyc[c].pc # "update" \/ cyc'[c].todo # cyc[c].todo
C12_NotFoundNotResent ==
    [][\A c \in Cycles :
        /\ (ev'.op = "updateReturn" /\ ev'.c = c /\ ev'.out = "notfound"
              /\ Head(cyc[c].todo).id \in DOMAIN store)
            => /\ Head(cyc[c].todo).id \in DOMAIN store'
               /\ store'[Head(cyc[c].todo).id].syncStatus = "conflict"
               /\ Len(cyc'[c].errs) = Len(cyc[c].errs) + 1
        /\ IssuesUpdate(c) => Head(cyc'[c].todo).id \notin hist.notFound]_vars

\* C13: the deleted batch of a cycle is every row flagged locallyDeleted and
\* each of them gets its api.deleteTask call; on success or not-found the row
\* is removed and no error is recorded; on any other failure one error is
\* recorded and the row stays as it is, still in the deleted batch of the
\* next cycle.
StartsDeletes(c) == cyc[c].pc # "delete" /\ cyc'[c].pc = "delete"
DeleteAnswered(c) == ev'.op = "deleteReturn" /\ ev'.c = c
DeleteOutcome(c) ==
    LET t == Head(cyc[c].todo)
    IN IF ev'.out \in {"ok", "notfound"}
       THEN /\ t.id \notin DOMAIN store'
            /\ cyc'[c].errs = cyc[c].errs
       ELSE /\ Len(cyc'[c].errs) = Len(cyc[c].errs) + 1
            /\ t.id \in DOMAIN store
                 => /\ t.id \in DOMAIN store' /\ store'[t.id] = store[t.id]
                    /\ t.id \in getLocallyDeletedIds(store')
DeleteBatchGoesOn(c) ==
    /\ StartsDeletes(c)
         => /\ {cyc'[c].todo[i].id : i \in 1..Len(cyc'[c].todo)}
                 = getLocallyDeletedIds(store')
            /\ ev'.calls # <<>>
            /\ ev'.calls[Len(ev'.calls)] = [kind |-> "delete", id |-> Head(cyc'[c].todo).id]
    /\ (DeleteAnswered(c) /\ Len(cyc[c].todo) > 1 /\ cyc'[c].pc # "idle")
         => /\ cyc'[c].pc = "delete" /\ cyc'[c].todo = Tail(cyc[c].todo)
            /\ ev'.calls = <<[kind |-> "delete", id |-> Head(cyc'[c].todo).id]>>
C13_DeletesPushed ==
    [][\A c \in Cycles :
        /\ DeleteBatchGoesOn(c)
        /\ DeleteAnswered(c) => DeleteOutcome(c)]_vars

\* C13 while the tasks table exists when the answer arrives.
C13_DeletesPushedOnTable ==
    [][\A c \in Cycles :
        /\ DeleteBatchGoesOn(c)
        /\ (DeleteAnswered(c) /\ tableExists) => DeleteOutcome(c)]_vars

\* C14: in every reachable state a row with syncStatus synced has none of
\* locallyCreated, locallyModified, locallyDeleted set.
C14_SyncedHasNoFlag ==
    \A id \in DOMAIN store : store[id].syncStatus = "synced" => ~Flagged(store[id])

\* ------------------------------------------------ markTaskAsSynced alone
\* Every row the table's columns allow, under id 1.
AnyRow ==
    [title : Titles, description : {NoDesc}, status : {"pending", "completed"},
     lastUpdatedAt : Times, serverLastUpdatedAt : {Null} \cup Times,
     syncStatus : {"synced", "pending", "conflict"},
     locallyCreated : BOOLEAN, locallyModified : BOOLEAN, locallyDeleted : BOOLEAN]

MarkInit ==
    /\ \E r \in AnyRow : store = [i \in {1} |-> r]
    /\ tableExists = TRUE
    /\ server = <<>>
    /\ clock = 1
    /\ netStatus = "unknown"
    /\ netListeners = 0
    /\ syncState = "idle"
    /\ lastSyncTime = Null
    /\ lastError = NullErr
    /\ isSyncInProgress = FALSE
    /\ cyc = [c \in Cycles |-> IdleCycle]
    /\ events = 0
    /\ ev = NoEv
    /\ hist = [notFound |-> {}, remote |-> DOMAIN store, unpushed |-> {},
               created |-> [c \in Cycles |-> {}], gone |-> [c \in Cycles |-> {}],
               quiet |-> [c \in Cycles |-> TRUE]]
    /\ retry = IdleRetry
    /\ syncInterval = Null
    /\ timers = {}
    /\ hook = Unmounted
    /\ reg = NoListeners
    /\ wait = NoWait

\* markTaskAsSynced(id, {lastUpdatedAt: ts}) on a stored row.
MarkTaskAsSynced ==
    /\ \E id \in DOMAIN store, ts \in Times :
          /\ store' = markTaskAsSynced(store, id, ts)
          /\ ev' = [op |-> "markTaskAsSynced", id |-> id, ts |-> ts]
    /\ Event
    /\ UNCHANGED <<tableExists, server, clock, netStatus, netListeners, syncState,
                   lastSyncTime, lastError, isSyncInProgress, cyc, hist, retry,
                   syncInterval, timers, hook, reg, wait>>

MarkSpec == MarkInit /\ [][MarkTaskAsSynced]_vars

\* C15: after markTaskAsSynced(id, ts) the row has locallyCreated,
\* locallyModified and locallyDeleted false, syncStatus synced and
\* lastUpdatedAt = serverLastUpdatedAt = ts, whatever it was before.
C15_MarkSyncedClearsAll ==
    [][ev'.op = "markTaskAsSynced"
        => LET r == store'[ev'.id]
           IN /\ ~r.locallyCreated /\ ~r.locallyModified /\ ~r.locallyDeleted
              /\ r.syncStatus = "synced"
              /\ r.lastUpdatedAt = ev'.ts /\ r.serverLastUpdatedAt = ev'.ts]_vars

\* C16: in every reachable state no row has both locallyModified and
\* locallyDeleted set.
C16_NotModifiedAndDeleted ==
    \A id \in DOMAIN store : ~(store[id].locallyModified /\ store[id].locallyDeleted)

\* C17: every update call a cycle issues (a plain update or a re-push) is
\* for a task that is not locallyCreated, whose row, if still stored, is not
\* locallyCreated, and whose record the service has seen (its create
\* succeeded or it was inserted from the service); and no row is both
\* locallyCreated and locallyModified.
IssuesRepush(c) == cyc'[c].pc = "repush" /\ cyc[c].pc # "repush"
C17_NoUpdateOfCreated ==
    [][/\ \A c \in Cycles :
            (IssuesUpdate(c) \/ IssuesRepush(c))
            => LET t == Head(cyc'[c].todo)
               IN /\ ~t.locallyCreated
                  /\ t.id \in hist'.remote
                  /\ t.id \in DOMAIN store' => ~store'[t.id].locallyCreated
       /\ \A id \in DOMAIN store' :
            store'[id].locallyCreated => ~store'[id].locallyModified]_vars

\* An update is in flight for a record the service has seen, while an
\* edited row that was never pushed is still created-only.
C17_Witness ==
    /\ \E c \in Cycles :
          /\ cyc[c].pc = "update"
          /\ Head(cyc[c].todo).id \in hist.remote
    /\ \E id \in DOMAIN store :
          /\ store[id].locallyCreated /\ ~store[id].locallyModified
          /\ store[id].title = "b"

\* C18: a row with locallyDeleted set is returned neither by getAllTasks nor
\* by getTaskById.
C18_DeletedIsHidden ==
    \A id \in DOMAIN store :
        store[id].locallyDeleted
        => /\ id \notin getAllTasksIds(store)
           /\ getTaskById(store, id) = <<>>

\* C18, the list alone: getAllTasks returns no row with locallyDeleted set.
C18_DeletedNotListed ==
    \A id \in DOMAIN store :
        store[id].locallyDeleted => id \notin getAllTasksIds(store)

\* C18, second half: a row with locallyDeleted set leaves the store, or
\* loses the flag, only in the step where a remote delete for it answers
\* success or not-found.
C18_DeletedRowStays ==
    [][\A id \in DOMAIN store :
          (store[id].locallyDeleted
           /\ (id \notin DOMAIN store' \/ ~store'[id].locallyDeleted))
          => /\ ev'.op = "deleteReturn"
             /\ ev'.out \in {"ok", "notfound"}
             /\ Head(cyc[ev'.c].todo).id = id]_vars

\* C18, second half while the table is kept.
C18_DeletedRowStaysOnTable ==
    [][\A id \in DOMAIN store :
          (tableExists'
           /\ store[id].locallyDeleted
           /\ (id \notin DOMAIN store' \/ ~store'[id].locallyDeleted))
          => /\ ev'.op = "deleteReturn"
             /\ ev'.out \in {"ok", "notfound"}
             /\ Head(cyc[ev'.c].todo).id = id]_vars

\* C19: a record that deleteTask took while it was locallyCreated and in no
\* batch of a cycle is out of the store from that step on, and no cycle
\* ever holds it in a batch, so no remote call is issued for it.
C19_UnpushedDeleteIsFinal ==
    \A id \in hist.unpushed : id \notin DOMAIN store /\ id \notin BatchIds

\* Such a record has been deleted, and the step just taken started a cycle,
\* which issued its first remote call.
C19_Witness ==
    /\ hist.unpushed # {}
    /\ ev.op \in {"networkChange", "sync"}
    /\ ev.calls # <<>>

\* C20: no step lowers the lastUpdatedAt of a row that stays in the store.
C20_LastUpdatedAtMonotone ==
    [][\A id \in DOMAIN store \cap DOMAIN store' :
          store'[id].lastUpdatedAt >= store[id].lastUpdatedAt]_vars

\* C20 for the local mutations alone (steps of no engine handler).
C20_LocalMutationsMonotone ==
    [][ev'.op = "none"
       => \A id \in DOMAIN store \cap DOMAIN store' :
             store'[id].lastUpdatedAt >= store[id].lastUpdatedAt]_vars

\* C21: when the remote create of a row succeeds, the row stays under its id
\* and becomes synced, not locallyCreated, with lastUpdatedAt =
\* serverLastUpdatedAt = the timestamp of the task the service stored; and
\* the pull that ends the same cycle leaves that row in the store as it is.
C21_IdNeverReassigned ==
    [][\A c \in Cycles :
          /\ (/\ ev'.op = "createReturn" /\ ev'.c = c /\ ev'.out = "ok"
              /\ tableExists /\ Head(cyc[c].todo).id \in DOMAIN store)
             => LET id == Head(cyc[c].todo).id
                IN /\ id \in DOMAIN store'
                   /\ ~store'[id].locallyCreated
                   /\ store'[id].syncStatus = "synced"
                   /\ store'[id].lastUpdatedAt = store'[id].serverLastUpdatedAt
                   /\ \E sid \in DOMAIN server' \ DOMAIN server :
                         server'[sid].lastUpdatedAt = store'[id].lastUpdatedAt
          /\ (ev'.op = "listReturn" /\ ev'.c = c)
             => \A id \in hist.created[c] \cap DOMAIN store :
                   id \in DOMAIN store' /\ store'[id] = store[id]]_vars

\* C21, the create's answer alone.
C21_CreateKeepsId ==
    [][\A c \in Cycles :
          (/\ ev'.op = "createReturn" /\ ev'.c = c /\ ev'.out = "ok"
           /\ tableExists /\ Head(cyc[c].todo).id \in DOMAIN store)
          => LET id == Head(cyc[c].todo).id
             IN /\ id \in DOMAIN store'
                /\ ~store'[id].locallyCreated
                /\ store'[id].syncStatus = "synced"
                /\ store'[id].lastUpdatedAt = store'[id].serverLastUpdatedAt
                /\ \E sid \in DOMAIN server' \ DOMAIN server :
                      server'[sid].lastUpdatedAt = store'[id].lastUpdatedAt]_vars

\* ------------------------------------------------- syncWithRetry, syncNow
\* syncWithRetry(n); syncNow() is syncWithRetry(1).
SyncWithRetry ==
    /\ retry.pc = "idle"
    /\ CanEnter
    /\ \E n \in 0..MaxAttempts :
          LET e == IF n >= 1 THEN SyncEnter(Engine) ELSE Engine
          IN /\ Commit(e, "syncWithRetry", 0, "none")
             /\ retry' = RetryAttempt([IdleRetry EXCEPT !.max = n, !.attempt = 1],
                                      Engine, e)
    /\ Event
    /\ UNCHANGED <<tableExists, clock, netStatus, netListeners, syncInterval, timers, hook, reg, wait>>
    /\ hist' = HistNext

\* sleep(delay) resolves: attempt++, the loop test, the next sync().
RetryWake ==
    /\ retry.pc = "sleep"
    /\ CanEnter
    /\ LET e == SyncEnter(Engine)
       IN /\ Commit(e, "retryWake", 0, "none")
          /\ retry' = RetryAttempt([retry EXCEPT !.attempt = @ + 1], Engine, e)
    /\ UNCHANGED <<tableExists, clock, netStatus, netListeners, events,
                   syncInterval, timers, hook, reg, wait>>
    /\ hist' = HistNext

\* A caller of syncWithRetry, the engine's triggers, new local records and
\* the remote calls' answers.
RetryNext ==
    \/ SyncWithRetry
    \/ RetryWake
    \/ ManualSync
    \/ InitializeSync
    \/ NetworkChange
    \/ CreateTask
    \/ \E c \in Cycles : CreateReturn(c)
    \/ \E c \in Cycles : ListReturn(c)

RetrySpec == Init /\ [][RetryNext]_vars

\* The awaited attempt ends in this step with a failed list call, after a
\* push without error.
AttemptFailsOnList ==
    /\ retry.pc = "await" /\ retry'.pc = "sleep"
    /\ ev'.op = "listReturn" /\ ev'.c = retry.slot
    /\ cyc[retry.slot].errs = <<>>
    /\ ev'.out \in FailKinds
LastDelay == retry'.slept[Len(retry'.slept)]

\* C22: the delay after failed attempt k is ERROR_BACKOFF_MS when the attempt
\* failed with an authentication error (401, no token getter, null token)
\* and RETRY_DELAY_MS * k when it failed with another error.
C22_BackoffByErrorKind ==
    [][AttemptFailsOnList
       => LastDelay = IF ev'.out \in AuthKinds THEN ERROR_BACKOFF_MS
                      ELSE RETRY_DELAY_MS * retry.attempt]_vars

\* C22 for the 401 answer and the failures with another non-empty message.
C22_BackoffBy401 ==
    [][(AttemptFailsOnList /\ ev'.out \in {"auth", "other"})
       => LastDelay = IF ev'.out = "auth" THEN ERROR_BACKOFF_MS
                      ELSE RETRY_DELAY_MS * retry.attempt]_vars

\* C23: syncWithRetry(N) calls sync() at most N times; it returns true in
\* the step its awaited sync() resolves to true, and false only after N
\* attempts; it has slept once after every attempt but the last; a returned
\* call never resumes; and when it returns false after a cycle that failed
\* with message m, the sync status carries m.
RetryCounts(r) ==
    /\ r.syncs <= r.max
    /\ r.pc = "await" => Len(r.slept) = r.syncs - 1
    /\ r.pc = "sleep" => Len(r.slept) = r.syncs /\ r.syncs < r.max
    /\ r.pc = "done"
       => /\ Len(r.slept) = IF r.syncs = 0 THEN 0 ELSE r.syncs - 1
          /\ r.result = "false" => r.syncs = r.max
C23_RetryTerminates ==
    [][/\ RetryCounts(retry')
       /\ retry.pc = "done" => retry' = retry
       /\ (retry.pc # "done" /\ retry'.pc = "done" /\ retry'.result = "true")
          => ev'.result = "true"
       /\ (retry.pc = "await" /\ retry'.pc = "done" /\ retry'.result = "false")
          => /\ ev'.result = "false"
             /\ ev'.done # <<>>
             /\ CurrentStatus'.error = ev'.done[Len(ev'.done)].error]_vars

\* C23 without the status message of the last failure.
C23_RetryCountsAttempts ==
    [][/\ RetryCounts(retry')
       /\ retry.pc = "done" => retry' = retry
       /\ (retry.pc # "done" /\ retry'.pc = "done" /\ retry'.result = "true")
          => ev'.result = "true"
       /\ (retry.pc = "await" /\ retry'.pc = "done" /\ retry'.result = "false")
          => ev'.result = "false"]_vars

\* ----------------------------------------------------------- periodic sync
\* Timer handles setInterval can return.
MaxTimers == 2
Handles == 1..MaxTimers

\* stopPeriodicSync(): clearInterval of the stored handle, if there is one.
stopPeriodicSync(p) ==
    IF p.syncInterval # Null
    THEN [syncInterval |-> Null, timers |-> p.timers \ {p.syncInterval}]
    ELSE p

\* startPeriodicSync(): stopPeriodicSync(), then setInterval returns h.
startPeriodicSync(p, h) ==
    LET q == stopPeriodicSync(p)
    IN [syncInterval |-> h, timers |-> q.timers \cup {h}]

Periodic == [syncInterval |-> syncInterval, timers |-> timers]

StartPeriodicSync ==
    /\ \E h \in Handles \ timers :
          LET q == startPeriodicSync(Periodic, h)
          IN syncInterval' = q.syncInterval /\ timers' = q.timers
    /\ Commit(Engine, "startPeriodicSync", 0, "none")
    /\ Event
    /\ UNCHANGED <<tableExists, clock, netStatus, netListeners>>
    /\ hist' = HistNext
    /\ retry' = RetryResume
    /\ hook' = HookStep
    /\ reg' = RegStep
    /\ wait' = WaitStep

StopPeriodicSync ==
    /\ LET q == stopPeriodicSync(Periodic)
       IN syncInterval' = q.syncInterval /\ timers' = q.timers
    /\ Commit(Engine, "stopPeriodicSync", 0, "none")
    /\ Event
    /\ UNCHANGED <<tableExists, clock, netStatus, netListeners>>
    /\ hist' = HistNext
    /\ retry' = RetryResume
    /\ hook' = HookStep
    /\ reg' = RegStep
    /\ wait' = WaitStep

\* The callback of an active interval timer.
TickCallback(e) == IF e.online /\ ~e.inProgress THEN SyncEnter(e) ELSE e

\* An active interval timer fires.
Tick ==
    /\ \E h \in timers : TRUE
    /\ ~isOnline \/ isSyncInProgress \/ FreeCycles(Engine) # {}
    /\ Commit(TickCallback(Engine), "tick", 0, "none")
    /\ UNCHANGED <<tableExists, clock, netStatus, netListeners, events,
                   syncInterval, timers, hook, reg, wait>>
    /\ hist' = HistNext
    /\ retry' = RetryResume

\* The periodic timer's owner, the engine's triggers and the answers of the
\* list calls.
PeriodicNext ==
    \/ StartPeriodicSync
    \/ StopPeriodicSync
    \/ Tick
    \/ InitializeSync
    \/ NetworkChange
    \/ \E c \in Cycles : ListReturn(c)

PeriodicSpec == Init /\ [][PeriodicNext]_vars

\* A cycle starts in this step.
CycleStarts == \E c \in Cycles : cyc[c].pc = "idle" /\ cyc'[c].pc # "idle"

\* C24: the active timers are exactly the one whose handle syncInterval
\* holds (none after stopPeriodicSync, one after any number of
\* startPeriodicSync); stopPeriodicSync without a timer changes nothing; and
\* a tick starts a cycle only when connectivity is online and no cycle is
\* in flight.
C24_PeriodicSync ==
    [][/\ timers' = IF syncInterval' = Null THEN {} ELSE {syncInterval'}
       /\ ev'.op = "stopPeriodicSync" => syncInterval' = Null
       /\ (ev'.op = "stopPeriodicSync" /\ syncInterval = Null)
          => UNCHANGED <<store, tableExists, server, netStatus, netListeners,
                         syncState, lastSyncTime, lastError, isSyncInProgress,
                         cyc, syncInterval, timers>>
       /\ (ev'.op = "tick" /\ CycleStarts) => isOnline /\ InFlight = {}]_vars

\* C24 with the in-progress flag in the place of the cycles in flight.
C24_PeriodicSyncByFlag ==
    [][/\ timers' = IF syncInterval' = Null THEN {} ELSE {syncInterval'}
       /\ ev'.op = "stopPeriodicSync" => syncInterval' = Null
       /\ (ev'.op = "stopPeriodicSync" /\ syncInterval = Null)
          => UNCHANGED <<store, tableExists, server, netStatus, netListeners,
                         syncState, lastSyncTime, lastError, isSyncInProgress,
                         cyc, syncInterval, timers>>
       /\ (ev'.op = "tick" /\ CycleStarts) => isOnline /\ ~isSyncInProgress]_vars

\* The step publishes the status as it is after the step.
PublishesNewStatus ==
    ev'.pub # <<>> /\ ev'.pub[Len(ev'.pub)] = CurrentStatus'

\* C25: every step that changes the sync status (state, lastSyncTime,
\* pendingChanges, error, isOnline) publishes the new status to the status
\* listeners.
C25_StatusChangesPublished ==
    [][CurrentStatus' # CurrentStatus => PublishesNewStatus]_vars

\* C25 for the engine's own fields: a step that changes state, lastSyncTime
\* or error publishes the new status.
C25_EngineChangesPublished ==
    [][(syncState' # syncState \/ lastSyncTime' # lastSyncTime
        \/ lastError' # lastError) => PublishesNewStatus]_vars

\* An exception ends cycle c in this step: a store statement of the push
\* phase threw outside the loops' try blocks (sync()'s catch block), or the
\* pull phase threw (fetchTasks rejected or a store statement failed).
PhaseException(c) ==
    /\ Completes(c)
    /\ ev'.c = c
    /\ \/ ev'.op \in ReturnOps \ {"listReturn"}
       \/ ev'.op = "listReturn" /\ ev'.out # "ok"

\* sync() resolved to false, the state is error with the failure's message
\* as lastError, and the completion listeners got the failure.
CaughtAsFailure ==
    /\ ev'.result = "false"
    /\ syncState' = "error"
    /\ ev'.done # <<>>
    /\ LET d == ev'.done[Len(ev'.done)]
       IN ~d.success /\ lastError' # NullErr /\ lastError' = d.error

\* C26: an exception raised inside the push or the pull phase ends the cycle
\* with sync() resolving to false, the state error with lastError set, and
\* the completion listeners notified of the failure.
C26_ExceptionsCaught ==
    [][\A c \in Cycles : PhaseException(c) => CaughtAsFailure]_vars

\* C26 for the exceptions that carry a message (every storage failure does).
C26_NamedExceptionsCaught ==
    [][\A c \in Cycles :
          PhaseException(c) /\ ev'.out # "empty" => CaughtAsFailure]_vars

\* C26 for sync()'s catch block alone.
C26_TopLevelCatch ==
    [][\A c \in Cycles :
          PhaseException(c) /\ ev'.op # "listReturn" => CaughtAsFailure]_vars

\* The create, update or delete call of cycle c failed in this step with
\* an error that is neither a conflict nor a not-found answer.
RecordFails(c) ==
    /\ ev'.c = c
    /\ ev'.op \in {"createReturn", "updateReturn", "deleteReturn"}
    /\ ev'.out \in FailKinds

\* The push loop of cycle c goes on in this step: to the next task of the
\* batch, or to the next batch that has one, or to fetchTasks when no batch
\* is left.
PushGoesOn(c) ==
    LET k == cyc[c]
    IN /\ ev'.calls = <<CallOf(cyc'[c])>>
       /\ IF Tail(k.todo) # <<>>
          THEN cyc'[c].pc = k.pc /\ cyc'[c].todo = Tail(k.todo)
          ELSE /\ cyc'[c].pc \in {"update", "delete", "list"}
               /\ cyc'[c].pc # k.pc
               /\ cyc'[c].pc = "delete" /\ k.pc = "create"
                    => getLocallyModifiedIds(store') = {}
               /\ cyc'[c].pc = "list" /\ k.pc \in {"create", "update"}
                    => getLocallyDeletedIds(store') = {}
               /\ cyc'[c].pc = "list" /\ k.pc = "create"
                    => getLocallyModifiedIds(store') = {}

\* C28: when the remote call for one record fails the store is left as it
\* was, one error is recorded, the push loop goes on with the remaining
\* records of the created, modified and deleted batches in the same cycle,
\* and a cycle whose pull succeeded returns true iff no error was recorded.
C28_FailureIsolated ==
    [][\A c \in Cycles :
        /\ RecordFails(c)
             => /\ store' = store
                /\ Len(cyc'[c].errs) = Len(cyc[c].errs) + 1
                /\ PushGoesOn(c)
        /\ (Completes(c) /\ ev'.c = c /\ ev'.op = "listReturn" /\ ev'.out = "ok")
             => (ev'.result = "true" <=> cyc[c].errs = <<>>)]_vars

\* A create call failed, the record is as it was and the cycle is now on the
\* create call of the next record.
C28_Witness ==
    /\ ev.op = "createReturn" /\ ev.out \in FailKinds
    /\ cyc[ev.c].pc = "create" /\ cyc[ev.c].errs # <<>>
    /\ \E id \in DOMAIN store :
          store[id].locallyCreated /\ id # Head(cyc[ev.c].todo).id

\* C29: when the remote list call of a cycle fails, the step leaves the
\* local store as it was -- the rows the push phase of the cycle marked
\* synced or removed stay so -- and the cycle ends in the error state with
\* sync() returning false.
C29_FailedPullKeepsStore ==
    [][\A c \in Cycles :
        (ev'.c = c /\ ev'.op = "listReturn" /\ ev'.out \in FailKinds)
            => /\ store' = store
               /\ Completes(c)
               /\ syncState' = "error"
               /\ ev'.result = "false"]_vars

\* The list call failed after the push phase had marked a created row
\* synced, no pull having mirrored the service's copy since: the row is
\* still synced under its local id.
C29_Witness ==
    /\ ev.op = "listReturn" /\ ev.out \in FailKinds
    /\ syncState = "error"
    /\ \E id \in DOMAIN store \ DOMAIN server, sid \in DOMAIN server \ DOMAIN store :
          /\ store[id].syncStatus = "synced" /\ ~Flagged(store[id])
          /\ store[id].serverLastUpdatedAt = server[sid].lastUpdatedAt
          /\ store[id].title = server[sid].title

\* ------------------------------------------------------- updateTask alone
\* UpdateTaskInput: each of title, description and status given or absent.
UpdateInputs ==
    [title : Titles \cup {Undef}, description : {NoDesc, Undef},
     status : {"pending", "completed", Undef}]

\* updateTask(id, input) on a stored row: ev keeps the call and what it
\* returned.
UpdateTaskWith ==
    /\ \E id \in DOMAIN store, input \in UpdateInputs, now \in Now :
          /\ clock' = now
          /\ store' = updateTask(store, id, input, now)
          /\ ev' = [op |-> "updateTask", id |-> id, input |-> input, now |-> now,
                    result |-> IF input.title = Undef /\ input.description = Undef
                                  /\ input.status = Undef
                               THEN getTaskById(store, id)
                               ELSE getTaskById(store', id)]
    /\ Event
    /\ UNCHANGED <<tableExists, server, netStatus, netListeners, syncState,
                   lastSyncTime, lastError, isSyncInProgress, cyc, hist, retry,
                   syncInterval, timers, hook, reg, wait>>

UpdateSpec == MarkInit /\ [][UpdateTaskWith]_vars

\* Every field the input provides has the row's current value.
ProvidesNoChange(input, r) ==
    /\ input.title \in {Undef, r.title}
    /\ input.description \in {Undef, r.description}
    /\ input.status \in {Undef, r.status}

\* The input provides no field.
ProvidesNothing(input) ==
    input.title = Undef /\ input.description = Undef /\ input.status = Undef

\* updateTask wrote the row: lastUpdatedAt is the time of the call, and a
\* row that is not locallyCreated is locallyModified and pending.
UpdateWritten(id, now) ==
    /\ store'[id].lastUpdatedAt = now
    /\ ~store[id].locallyCreated
         => store'[id].locallyModified /\ store'[id].syncStatus = "pending"
    /\ ev'.result = <<rowToTask(store', id)>>

\* updateTask left the row alone and returned it.
UpdateSkipped(id) ==
    store' = store /\ ev'.result = <<rowToTask(store, id)>>

\* C30: updateTask with an input whose provided fields all equal the row's
\* current values changes nothing and returns the existing record; with any
\* other input it sets lastUpdatedAt to the time of the call and, unless the
\* row is locallyCreated, sets locallyModified and syncStatus pending.
C30_UpdateNoOpWhenEqual ==
    [][ev'.op = "updateTask"
        => IF ProvidesNoChange(ev'.input, store[ev'.id])
           THEN UpdateSkipped(ev'.id)
           ELSE UpdateWritten(ev'.id, ev'.now)]_vars

\* C30 with the no-op taken as the code takes it: no field provided.
C30_UpdateNoOpWhenEmpty ==
    [][ev'.op = "updateTask"
        => IF ProvidesNothing(ev'.input)
           THEN UpdateSkipped(ev'.id)
           ELSE UpdateWritten(ev'.id, ev'.now)]_vars

\* ------------------------------------------------------- useSync's trigger
\* A screen mounts useSync: the first render's effects.  The status listener
\* is called at once with the current status, useNetwork reads the
\* connectivity, and the auto-trigger effect runs with the initial values.
MountUseSync ==
    /\ ~hook.mounted
    /\ hook' = [mounted |-> TRUE, isSyncing |-> (syncState = "syncing"),
                pendingChanges |-> getPendingChangesCount(store),
                isConnected |-> isOnline, seen |-> Deps(Unmounted),
                byFailure |-> FALSE]
    /\ Commit(Engine, "mountUseSync", 0, "none")
    /\ Event
    /\ UNCHANGED <<tableExists, clock, netStatus, netListeners, syncInterval, timers>>
    /\ hist' = HistNext
    /\ retry' = RetryResume
    /\ reg' = RegStep
    /\ wait' = WaitStep

\* triggerSync() up to the first remote call of its sync(), or to its end:
\* setIsSyncing(true), sync(), and the finally block when sync() has
\* resolved at once.
triggerSync(h, e) ==
    LET h1 == StatusListener([h EXCEPT !.isSyncing = TRUE], e.pub)
    IN IF e.calls = <<>> THEN [h1 EXCEPT !.isSyncing = FALSE] ELSE h1

\* The auto-trigger effect runs after a render in which one of its
\* dependencies changed.
UseSyncEffect ==
    /\ hook.mounted
    /\ Deps(hook) # hook.seen
    /\ LET h == [hook EXCEPT !.seen = Deps(hook), !.byFailure = FALSE]
       IN IF hook.isConnected /\ ~hook.isSyncing /\ hook.pendingChanges > 0
          THEN /\ CanEnter
               /\ LET e == SyncEnter(Engine)
                  IN /\ Commit(e, "useSyncEffect", 0, "none")
                     /\ hook' = triggerSync(h, e)
          ELSE /\ Commit(Engine, "useSyncEffect", 0, "none")
               /\ hook' = h
    /\ UNCHANGED <<tableExists, clock, netStatus, netListeners, events,
                   syncInterval, timers>>
    /\ hist' = HistNext
    /\ retry' = RetryResume
    /\ reg' = RegStep
    /\ wait' = WaitStep

\* A screen with the hook, the engine's triggers, new local records and the
\* remote calls' answers.
HookNext ==
    \/ MountUseSync
    \/ UseSyncEffect
    \/ ManualSync
    \/ InitializeSync
    \/ NetworkChange
    \/ CreateTask
    \/ \E c \in Cycles : CreateReturn(c)
    \/ \E c \in Cycles : ListReturn(c)

HookSpec == Init /\ [][HookNext]_vars

\* The auto-trigger effect starts a sync cycle in this step.
EffectStartsCycle == ev'.op = "useSyncEffect" /\ ev'.calls # <<>>

\* C27: the useSync auto-trigger starts no cycle because a failed cycle has
\* finished: when the effect starts a cycle, the change of its dependencies
\* that made it run was not the end of a cycle that returned false.
C27_NoRetryLoop ==
    [][EffectStartsCycle => ~hook.byFailure]_vars

\* C27's frame: the effect starts a cycle only while the hook sees the
\* device connected, no cycle running and a pending change.
C27_EffectGuard ==
    [][EffectStartsCycle
        => hook.isConnected /\ ~hook.isSyncing /\ hook.pendingChanges > 0]_vars

\* ------------------------------------------------------ listener registries
\* addSyncStatusListener(listener): added, then called at once with the
\* current status.
AddSyncStatusListener ==
    /\ Len(reg.status) < MaxListeners
    /\ \E k \in ListenerKinds :
          reg' = [reg EXCEPT !.status = Append(@, k), !.last = NoPasses]
    /\ Commit(Engine, "addSyncStatusListener", 0, "none")
    /\ Event
    /\ UNCHANGED <<tableExists, clock, netStatus, netListeners, syncInterval, timers>>
    /\ hist' = HistNext
    /\ retry' = RetryResume
    /\ hook' = HookStep
    /\ wait' = WaitStep

\* addSyncCompleteListener(listener).
AddSyncCompleteListener ==
    /\ Len(reg.complete) < MaxListeners
    /\ \E k \in ListenerKinds :
          reg' = [reg EXCEPT !.complete = Append(@, k), !.last = NoPasses]
    /\ Commit(Engine, "addSyncCompleteListener", 0, "none")
    /\ Event
    /\ UNCHANGED <<tableExists, clock, netStatus, netListeners, syncInterval, timers>>
    /\ hist' = HistNext
    /\ retry' = RetryResume
    /\ hook' = HookStep
    /\ wait' = WaitStep

\* addNetworkListener(listener) by another module: added, then called at
\* once inside a try block.
AddNetworkListener ==
    /\ Cardinality({i \in 1..Len(reg.network) : reg.network[i] # "engine"})
         < MaxListeners
    /\ \E k \in ListenerKinds :
          reg' = [reg EXCEPT !.network = Append(@, k), !.last = NoPasses]
    /\ Commit(Engine, "addNetworkListener", 0, "none")
    /\ Event
    /\ UNCHANGED <<tableExists, clock, netStatus, netListeners, syncInterval, timers>>
    /\ hist' = HistNext
    /\ retry' = RetryResume
    /\ hook' = HookStep
    /\ wait' = WaitStep

\* Subscribers of the three registries, the engine's triggers and the
\* answers of the list calls.
ListenerNext ==
    \/ AddSyncStatusListener
    \/ AddSyncCompleteListener
    \/ AddNetworkListener
    \/ InitializeSync
    \/ NetworkChange
    \/ ManualSync
    \/ \E c \in Cycles : ListReturn(c)

ListenerSpec == Init /\ [][ListenerNext]_vars

\* The pass p called every listener of the registry ls, each once and in
\* order, and no exception left it.
PassComplete(p, ls) ==
    p.ran => p.called = [i \in 1..Len(ls) |-> i] /\ ~p.escaped

\* The step's passes went over a registry with a throwing listener.
ThrowerCalled(p, ls) ==
    p.ran /\ \E i \in 1..Len(p.called) : ls[p.called[i]] = "throws"

\* C31: in every pass over the status, completion and connectivity
\* registries each registered listener is called, whether or not another one
\* throws, and no exception leaves the pass; a connectivity event reaches
\* every connectivity listener of the engine, so the cycles it starts, the
\* state and the in-progress flag are those of a pass without a throwing
\* listener; and a cycle that ends leaves the flag false and the state idle
\* or error.
C31_ThrowingListenerIsolated ==
    [][/\ PassComplete(reg'.last.status, reg.status)
       /\ PassComplete(reg'.last.complete, reg.complete)
       /\ PassComplete(reg'.last.network, reg.network)
       /\ ev'.op = "networkChange"
            => LET e == NotifyNetwork([Engine EXCEPT !.online = (netStatus' = "online")],
                                      netListeners)
               IN /\ cyc' = e.cyc
                  /\ isSyncInProgress' = e.inProgress
                  /\ syncState' = e.syncState
       /\ \A c \in Cycles :
            Completes(c) => /\ ev'.result \in {"true", "false"}
                            /\ syncState' \in {"idle", "error"}
                            /\ ~isSyncInProgress']_vars

\* A connectivity event went over a registry in which a throwing listener
\* precedes the engine's, and the cycle it started published its status to
\* a registry with a throwing listener.
C31_Witness ==
    /\ ev.op = "networkChange"
    /\ reg.network = <<"throws", "engine">>
    /\ ThrowerCalled(reg.last.network, reg.network)
    /\ ThrowerCalled(reg.last.status, reg.status)
    /\ ev.calls # <<>>

\* ------------------------------------------------------- waitForOnline calls
\* A caller awaits waitForOnline(); a new call may follow one that resolved.
WaitForOnline ==
    /\ wait.pc \in {"idle", "done"} /\ ~wait.timer /\ ~wait.listening
    /\ wait' = waitForOnline(isOnline)
    /\ Commit(Engine, "waitForOnline", 0, "none")
    /\ Event
    /\ UNCHANGED <<tableExists, clock, netStatus, netListeners, syncInterval, timers>>
    /\ hist' = HistNext
    /\ retry' = RetryResume
    /\ hook' = HookStep
    /\ reg' = RegStep

\* The call's timeout elapses.
WaitTimeout ==
    /\ wait.timer
    /\ wait' = waitTimeout(wait)
    /\ Commit(Engine, "waitTimeout", 0, "none")
    /\ UNCHANGED <<tableExists, clock, netStatus, netListeners, events,
                   syncInterval, timers>>
    /\ hist' = HistNext
    /\ retry' = RetryResume
    /\ hook' = HookStep
    /\ reg' = RegStep

\* A caller of waitForOnline, its timer, the NetInfo events, the engine's
\* triggers and the answers of the list calls.
WaitNext ==
    \/ WaitForOnline
    \/ WaitTimeout
    \/ NetworkChange
    \/ InitializeSync
    \/ ManualSync
    \/ \E c \in Cycles : ListReturn(c)

WaitSpec == Init /\ [][WaitNext]_vars

C32_WitnessTimeout ==
    /\ ev.op = "waitTimeout"
    /\ wait.pc = "done" /\ wait.resolves = <<FALSE>>

\* -------------------------------------------------------- the remote client
\* What apiRequest meets: whether setAuthTokenGetter was called, whether the
\* getter gives a token, and what fetch does: it throws, or answers with a
\* status and a body that is JSON or not, with a serverTask member or not.
ApiStatuses == {200, 201, 204, 304, 400, 401, 404, 409, 422, 500, 503}
ApiInputs ==
    [getter : BOOLEAN, token : BOOLEAN, transport : {"ok", "throws"},
     status : ApiStatuses, json : BOOLEAN, serverTask : BOOLEAN]

\* The call's outcome: the class of the error thrown, or success with the
\* value returned ("decoded": the parsed body, "undefined": none); sent says
\* whether fetch was called.
ApiOutcome(outcome, sent, body) == [outcome |-> outcome, sent |-> sent, body |-> body]

\* apiRequest(endpoint, options).
apiRequest(i) ==
    IF ~i.getter THEN ApiOutcome("unauthorized", FALSE, "none")
    ELSE IF ~i.token THEN ApiOutcome("unauthorized", FALSE, "none")
    ELSE IF i.transport = "throws" THEN ApiOutcome("networkError", TRUE, "none")
    ELSE IF i.status = 204 THEN ApiOutcome("success", TRUE, "undefined")
    ELSE IF i.status = 401 THEN ApiOutcome("unauthorized", TRUE, "none")
    ELSE IF i.status = 404 THEN ApiOutcome("notFound", TRUE, "none")
    ELSE IF i.status = 409
    THEN IF ~i.json THEN ApiOutcome("networkError", TRUE, "none")
         ELSE IF i.serverTask THEN ApiOutcome("conflict", TRUE, "serverTask")
         ELSE ApiOutcome("clientError", TRUE, "none")
    ELSE IF i.status >= 400 /\ i.status < 500
    THEN ApiOutcome("clientError", TRUE, "none")
    ELSE IF i.status >= 500 THEN ApiOutcome("serverError", TRUE, "none")
    ELSE IF i.json THEN ApiOutcome("success", TRUE, "decoded")
    ELSE ApiOutcome("networkError", TRUE, "none")

\* One call of the remote client: ev keeps what it met and its outcome.
ApiRequest ==
    /\ \E i \in ApiInputs :
          ev' = [op |-> "apiRequest", input |-> i, result |-> apiRequest(i)]
    /\ Event
    /\ UNCHANGED <<store, tableExists, server, clock, netStatus, netListeners,
                   syncState, lastSyncTime, lastError, isSyncInProgress, cyc, hist,
                   retry, syncInterval, timers, hook, reg, wait>>

ApiSpec == Init /\ [][ApiRequest]_vars

Is2xx(status) == status >= 200 /\ status < 300

\* C33: with no token getter or no token the call fails with an
\* authentication error and nothing is sent; a transport exception is a
\* network error; a 2xx answer is a success with the decoded body, 404 is
\* not-found, every 409 is a conflict with the server's record, any other
\* 4xx a client error (401 the authentication error), 5xx a server error;
\* and no status outside 2xx is a success.
C33_ResponseClassified ==
    [][ev'.op = "apiRequest"
        => LET i == ev'.input
               r == ev'.result
           IN IF ~i.getter \/ ~i.token
              THEN r.outcome = "unauthorized" /\ ~r.sent
              ELSE /\ r.sent
                   /\ IF i.transport = "throws" THEN r.outcome = "networkError"
                      ELSE /\ Is2xx(i.status)
                                => r.outcome = "success" /\ r.body = "decoded"
                           /\ i.status = 404 => r.outcome = "notFound"
                           /\ i.status = 409
                                => r.outcome = "conflict" /\ r.body = "serverTask"
                           /\ i.status = 401 => r.outcome = "unauthorized"
                           /\ (i.status >= 400 /\ i.status < 500
                               /\ i.status \notin {401, 404, 409})
                                => r.outcome = "clientError"
                           /\ i.status >= 500 => r.outcome = "serverError"
                           /\ ~Is2xx(i.status) => r.outcome # "success"]_vars

\* C33 for the answers the service is built to give: a 2xx with a JSON
\* body or 204 with none, a 409 whose JSON body has the serverTask, or a
\* 4xx or 5xx status.
C33_ServiceAnswersClassified ==
    [][ev'.op = "apiRequest"
        => LET i == ev'.input
               r == ev'.result
           IN IF ~i.getter \/ ~i.token
              THEN r.outcome = "unauthorized" /\ ~r.sent
              ELSE /\ r.sent
                   /\ IF i.transport = "throws" THEN r.outcome = "networkError"
                      ELSE /\ (Is2xx(i.status) /\ i.json /\ i.status # 204)
                                => r.outcome = "success" /\ r.body = "decoded"
                           /\ i.status = 204 => r.outcome = "success"
                           /\ i.status = 404 => r.outcome = "notFound"
                           /\ (i.status = 409 /\ i.json /\ i.serverTask)
                                => r.outcome = "conflict" /\ r.body = "serverTask"
                           /\ i.status = 401 => r.outcome = "unauthorized"
                           /\ (i.status >= 400 /\ i.status < 500
                               /\ i.status \notin {401, 404, 409})
                                => r.outcome = "clientError"
                           /\ i.status >= 500 => r.outcome = "serverError"
                           /\ i.status >= 400 => r.outcome # "success"]_vars

\* C33's last part alone: a status outside 2xx is never a success.
C33_OnlySuccessOn2xx ==
    [][ev'.op = "apiRequest" /\ ~Is2xx(ev'.input.status)
        => ev'.result.outcome # "success"]_vars

\* C33's part on 409 alone: every 409 is a conflict with the server's record.
C33_Every409IsConflict ==
    [][(ev'.op = "apiRequest" /\ ev'.result.sent /\ ev'.input.transport = "ok"
        /\ ev'.input.status = 409 /\ ev'.input.json)
        => ev'.result.outcome = "conflict"]_vars

\* ------------------------------------------------------ missing tasks table
\* The list call of cycle c answers with success in this step while the
\* tasks table is missing and the push phase has recorded no error.
PullsWithoutTable(c) ==
    /\ ~tableExists
    /\ cyc[c].pc = "list" /\ cyc[c].errs = <<>>
    /\ ev'.op = "listReturn" /\ ev'.c = c
    /\ ev'.out \in {"ok", "storage"}

\* C34: while the tasks table is missing the provenance queries return
\* nothing and pendingChanges is 0, and a cycle that pulls with success
\* from the service does not end in the error state, whatever the remote
\* set holds.
C34_MissingTableIsEmpty ==
    /\ [](~tableExists
            => /\ getLocallyCreatedTasks(store) = <<>>
               /\ getLocallyModifiedTasks(store) = <<>>
               /\ getLocallyDeletedTasks(store) = <<>>
               /\ CurrentStatus.pendingChanges = 0)
    /\ [][\A c \in Cycles :
            PullsWithoutTable(c)
            => ev'.result = "true" /\ syncState' = "idle"]_vars

\* C34 with an empty remote set.
C34_MissingTableEmptyRemote ==
    /\ [](~tableExists
            => /\ getLocallyCreatedTasks(store) = <<>>
               /\ getLocallyModifiedTasks(store) = <<>>
               /\ getLocallyDeletedTasks(store) = <<>>
               /\ CurrentStatus.pendingChanges = 0)
    /\ [][\A c \in Cycles :
            PullsWithoutTable(c) /\ server = <<>>
            => ev'.result = "true" /\ syncState' = "idle"]_vars

\* --------------------------------------------- a delete during the push
\* C36: when a cycle ends, no record that deleteTask removed or soft-deleted
\* while the cycle was suspended on the record's create or update call is
\* among the rows getAllTasks returns.
C36_DeleteNotUndone ==
    [][\A c \in Cycles :
        Completes(c) => hist.gone[c] \cap getAllTasksIds(store') = {}]_vars

\* C36 for markTaskAsSynced alone: the successful answer of the create or
\* update call of a record deleted meanwhile leaves it out of getAllTasks.
C36_MarkSyncedKeepsDelete ==
    [][\A c \in Cycles :
        (/\ ev'.op \in {"createReturn", "updateReturn"} /\ ev'.c = c
         /\ ev'.out = "ok")
        => \A id \in hist.gone[c] \cap {Head(cyc[c].todo).id} :
              id \notin getAllTasksIds(store')]_vars

\* C36 for conflict resolution alone.
C36_ConflictKeepsDelete ==
    [][\A c \in Cycles :
        (/\ ev'.op = "updateReturn" /\ ev'.c = c /\ ev'.out = "conflict")
        => \A id \in hist.gone[c] \cap {Head(cyc[c].todo).id} :
              id \notin getAllTasksIds(store')]_vars

\* C36 for the pull alone.
C36_PullKeepsDelete ==
    [][\A c \in Cycles :
        (ev'.op = "listReturn" /\ ev'.c = c)
        => \A id \in hist.gone[c] \ getAllTasksIds(store) :
              id \notin getAllTasksIds(store')]_vars

\* ----------------------------------------------------------------- teardown
\* The module variable networkUnsubscribe: declared null and assigned
\* nowhere (initializeSync drops what addNetworkListener returns).
networkUnsubscribe == Null

\* cleanupSync() on the registries: the engine's connectivity listener
\* leaves only through networkUnsubscribe; both engine registries are cleared.
cleanupSync(r) ==
    [r EXCEPT !.network = IF networkUnsubscribe # Null
                          THEN SelectSeq(@, LAMBDA k : k # "engine") ELSE @,
              !.status = <<>>, !.complete = <<>>, !.last = NoPasses]

CleanupSync ==
    /\ LET q == stopPeriodicSync(Periodic)
       IN syncInterval' = q.syncInterval /\ timers' = q.timers
    /\ netListeners' = IF networkUnsubscribe # Null THEN 0 ELSE netListeners
    /\ reg' = cleanupSync(reg)
    /\ Commit(Engine, "cleanupSync", 0, "none")
    /\ Event
    /\ UNCHANGED <<tableExists, clock, netStatus>>
    /\ hist' = HistNext
    /\ retry' = RetryResume
    /\ hook' = HookStep
    /\ wait' = WaitStep

\* The engine's owner (initializeSync, startPeriodicSync, cleanupSync), the
\* subscribers of its registries, the connectivity monitor and the answers
\* of the list calls.
TeardownNext ==
    \/ InitializeSync
    \/ StartPeriodicSync
    \/ AddSyncStatusListener
    \/ AddSyncCompleteListener
    \/ CleanupSync
    \/ NetworkChange
    \/ \E c \in Cycles : ListReturn(c)

TeardownSpec == Init /\ [][TeardownNext]_vars

\* C37, first part: a transition to online that follows cleanupSync() starts
\* no sync cycle.
C37_NoCycleAfterCleanup ==
    [][(ev.op = "cleanupSync" /\ ev'.op = "networkChange" /\ netStatus' = "online")
        => ~CycleStarts]_vars

\* C37, second part: an initializeSync() that follows a cleanupSync() leaves
\* one connectivity listener of the engine registered, whatever the number
\* of rounds before it.
C37_OneListenerPerRound ==
    [][(ev.op = "cleanupSync" /\ ev'.op = "initializeSync")
        => netListeners' <= 1]_vars

\* C37: cleanupSync() leaves no connectivity listener of the engine, a
\* transition to online after it starts no cycle, and the initializeSync()
\* of the next round registers the only listener of the engine.
C37_TeardownDetaches ==
    /\ [][ev'.op = "cleanupSync" => netListeners' = 0]_vars
    /\ [][(ev.op = "cleanupSync" /\ ev'.op = "networkChange"
           /\ netStatus' = "online") => ~CycleStarts]_vars
    /\ [][(ev.op = "cleanupSync" /\ ev'.op = "initializeSync")
           => netListeners' <= 1]_vars

\* C37, the rest of the teardown: cleanupSync() leaves no interval timer of
\* the engine and no status or completion listener.
C37_CleanupClearsRest ==
    [][ev'.op = "cleanupSync"
        => /\ syncInterval' = Null /\ syncInterval \notin timers'
           /\ reg'.status = <<>> /\ reg'.complete = <<>>]_vars

\* C37, the calls of one transition: the listeners of the engine start at
\* most one cycle per connectivity event.
C37_OneCyclePerTransition ==
    [][ev'.op = "networkChange"
        => Cardinality({c \in Cycles : cyc[c].pc = "idle" /\ cyc'[c].pc # "idle"})
             <= 1]_vars

\* ------------------------------------------------- state and lastError
\* C38: in every reachable state, state idle goes with no lastError and
\* state error with a lastError that is a message.
C38_ErrorMatchesState ==
    /\ syncState = "idle" => lastError = NullErr
    /\ syncState = "error" => lastError # NullErr

\* C38, the idle half.
C38_IdleHasNoError == syncState = "idle" => lastError = NullErr

\* C38, the error half for the failures whose message is not empty.
C38_NamedFailureHasError ==
    [][(ev'.op \in ReturnOps /\ syncState' = "error" /\ ev'.done # <<>>
        /\ ev'.done[1].error # "")
        => lastError' # NullErr]_vars

\* ------------------------------------------------------------ convergence
\* The active rows of st are the remote records of srv: same ids, fields
\* and timestamps.
MirrorsRemote(st, srv) ==
    /\ getAllTasksIds(st) = DOMAIN srv
    /\ \A i \in DOMAIN srv :
          SameFields(st[i], srv[i]) /\ st[i].lastUpdatedAt = srv[i].lastUpdatedAt

\* Cycle c ends in this step with the answer of its list call, and every
\* remote call of the cycle succeeded with no local change meanwhile.
QuietCycleEnds(c) ==
    /\ Completes(c) /\ hist.quiet[c]
    /\ ev'.op = "listReturn" /\ ev'.c = c /\ ev'.out \in {"ok", "storage"}

\* C39: a cycle whose remote calls all succeed without conflict, with no
\* local change while it runs, ends with state idle, pendingChanges 0 and
\* the active local rows equal to the remote records in ids, fields and
\* timestamps.
C39_QuietCycleConverges ==
    [][\A c \in Cycles :
        QuietCycleEnds(c)
        => /\ syncState' = "idle"
           /\ getPendingChangesCount(store') = 0
           /\ MirrorsRemote(store', server')]_vars

\* C39 on a provisioned tasks table.
C39_QuietCycleConvergesOnTable ==
    [][\A c \in Cycles :
        (QuietCycleEnds(c) /\ tableExists)
        => /\ syncState' = "idle"
           /\ getPendingChangesCount(store') = 0
           /\ MirrorsRemote(store', server')]_vars

\* ---------------------------------------------------------- the pull alone
\* The sets fetchTasks can answer with: tasks under the service's ids and
\* under an id that contains 'undefined'.
FetchedTask == {ApiTask(title, NoDesc, "pending", ts) : title \in Titles, ts \in Times}
FetchedSets == UNION {[S -> FetchedTask] : S \in SUBSET (Ids \cup UndefinedIds)}

\* The stores a pull meets: none, a mirrored row, a row created locally.
PullStores == {<<>>, InitPulled, [i \in {1} |-> NewRow("b", NoDesc, 1)]}

PullInit ==
    /\ store \in PullStores
    /\ server \in FetchedSets
    /\ tableExists = TRUE
    /\ clock = 1
    /\ netStatus = "online"
    /\ netListeners = 0
    /\ syncState = "idle"
    /\ lastSyncTime = Null
    /\ lastError = NullErr
    /\ isSyncInProgress = FALSE
    /\ cyc = [c \in Cycles |-> IdleCycle]
    /\ events = 0
    /\ ev = NoEv
    /\ hist = [notFound |-> {}, remote |-> DOMAIN store, unpushed |-> {},
               created |-> [c \in Cycles |-> {}], gone |-> [c \in Cycles |-> {}],
               quiet |-> [c \in Cycles |-> TRUE]]
    /\ retry = IdleRetry
    /\ syncInterval = Null
    /\ timers = {}
    /\ hook = Unmounted
    /\ reg = NoListeners
    /\ wait = NoWait

\* pullChanges() with fetchTasks answering the set the service holds.
PullChanges ==
    /\ LET r == pullChanges(Engine, fetchTasks(server))
       IN /\ store' = r.e.store
          /\ ev' = [op |-> "pullChanges", serverTasks |-> fetchTasks(server),
                    success |-> r.success]
    /\ Event
    /\ UNCHANGED <<tableExists, server, clock, netStatus, netListeners, syncState,
                   lastSyncTime, lastError, isSyncInProgress, cyc, hist, retry,
                   syncInterval, timers, hook, reg, wait>>

PullSpec == PullInit /\ [][PullChanges]_vars

\* The fetched set has a record whose id contains 'undefined'.
Suspicious(serverTasks) ==
    \E i \in 1..Len(serverTasks) : serverTasks[i].id \in UndefinedIds

\* C35: a pull whose fetched set has a record id containing 'undefined'
\* leaves the local store as it was: nothing upserted, nothing removed.
C35_SuspiciousPullSkipped ==
    [][(ev'.op = "pullChanges" /\ Suspicious(ev'.serverTasks))
        => store' = store]_vars

\* C35's test as the code has it: it lets every fetched set through.
C35_TestNeverSkips == ShouldReconcile(fetchTasks(server))

====
